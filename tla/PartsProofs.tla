------------------------------ MODULE PartsProofs ------------------------------
(***************************************************************************)
(* Parts of the system that are a process or a library of their own, for   *)
(* all values of their constants: the key ring of a client is a queue that *)
(* drops its oldest key; the decoder of scan codes gives each key its      *)
(* keystroke; Pong writes to its window only; the shell executes the line  *)
(* that is shown.                                                          *)
(***************************************************************************)
EXTENDS KeyRing, KeyDecoder, Pong, Shell, Train, FiniteSetTheorems, SequenceTheorems,
        TLAPS

-----------------------------------------------------------------------------
(* The ring of KeyRing *)

Buffered == RingKeys \cup {NoKeyYet}

RingTypeOK == /\ ring \in [Indices -> Buffered]
              /\ head \in Indices /\ tail \in Indices
              /\ ring_key \in Buffered

RingQueue == [i \in 1 .. Count |-> ring[Place(i)]]

(* The index after the last is the first. *)
LEMMA AfterWraps ==
  ASSUME NEW i \in Indices
  PROVE /\ After(i) = IF i = MAX_KEYB_BUFFER - 1 THEN 0 ELSE i + 1
        /\ After(i) \in Indices
<1>1. CASE i = MAX_KEYB_BUFFER - 1
  <2>1. MAX_KEYB_BUFFER % MAX_KEYB_BUFFER = 0
    BY RingAssumption
  <2> QED BY <1>1, <2>1, RingAssumption DEF After, Indices
<1>2. CASE i # MAX_KEYB_BUFFER - 1
  <2>1. i + 1 \in 0 .. MAX_KEYB_BUFFER - 1
    BY <1>2, RingAssumption DEF Indices
  <2>2. (i + 1) % MAX_KEYB_BUFFER = i + 1
    BY <2>1, RingAssumption
  <2> QED BY <1>2, <2>1, <2>2, RingAssumption DEF After, Indices
<1> QED BY <1>1, <1>2

(* head and tail stay in the array, and what is in it is a key. *)
THEOREM RingIsTyped == RingSpec => []RingTypeOK
<1>1. RingInit => RingTypeOK
  BY RingAssumption DEF RingInit, RingTypeOK, Indices, Buffered
<1>2. RingTypeOK /\ [RingNext]_ringVars => RingTypeOK'
  <2> SUFFICES ASSUME RingTypeOK, [RingNext]_ringVars PROVE RingTypeOK'
    OBVIOUS
  <2> USE DEF RingTypeOK
  <2>1. ASSUME NEW k \in RingKeys, ring_enqueue(k) PROVE RingTypeOK'
    BY <2>1, AfterWraps DEF ring_enqueue, Buffered
  <2>2. ASSUME ring_dequeue PROVE RingTypeOK'
    BY <2>2, AfterWraps DEF ring_dequeue
  <2>3. ASSUME UNCHANGED ringVars PROVE RingTypeOK'
    BY <2>3 DEF ringVars
  <2> QED BY <2>1, <2>2, <2>3 DEF RingNext
<1> QED BY <1>1, <1>2, PTL DEF RingSpec

-----------------------------------------------------------------------------
(* Numbers and places in the ring, for any head h and tail t. *)
LEMMA CountIsInRange ==
  ASSUME NEW h \in Indices, NEW t \in Indices
  PROVE (IF h < t THEN h + MAX_KEYB_BUFFER - t ELSE h - t) \in 0 .. MAX_KEYB_BUFFER - 1
BY RingAssumption DEF Indices

LEMMA PlaceIsInRange ==
  ASSUME NEW t \in Indices, NEW i \in 1 .. MAX_KEYB_BUFFER - 1
  PROVE (IF t + i <= MAX_KEYB_BUFFER THEN t + i - 1 ELSE t + i - 1 - MAX_KEYB_BUFFER)
          \in Indices
BY RingAssumption DEF Indices

(* The queue is a sequence of keys, shorter than the array, and its places *)
(* are cells of the array.                                                 *)
LEMMA QueueIsASequence ==
  ASSUME RingTypeOK
  PROVE /\ Count \in 0 .. MAX_KEYB_BUFFER - 1
        /\ \A i \in 1 .. Count : Place(i) \in Indices
        /\ RingQueue \in Seq(Buffered) /\ Len(RingQueue) = Count
        /\ \A i \in 1 .. Count : RingQueue[i] = ring[Place(i)]
<1>1. Count \in 0 .. MAX_KEYB_BUFFER - 1
  BY RingAssumption DEF RingTypeOK, Count, Indices
<1>2. ASSUME NEW i \in 1 .. Count PROVE Place(i) \in Indices
  BY <1>1, <1>2, RingAssumption DEF RingTypeOK, Place, Indices
<1>3. RingQueue \in [1 .. Count -> Buffered]
  BY <1>2 DEF RingTypeOK, RingQueue
<1> QED BY <1>1, <1>2, <1>3 DEF RingQueue

LEMMA QueueIsASequenceThen ==
  ASSUME RingTypeOK'
  PROVE /\ RingQueue' \in Seq(Buffered) /\ Len(RingQueue') = Count'
        /\ \A i \in 1 .. Count' : RingQueue'[i] = ring'[Place(i)']
<1>1. /\ ring' \in [Indices -> Buffered]
      /\ head' \in Indices /\ tail' \in Indices
  BY DEF RingTypeOK
<1>2. Count' \in 0 .. MAX_KEYB_BUFFER - 1
  BY <1>1, CountIsInRange DEF Count
<1>3. ASSUME NEW i \in 1 .. Count' PROVE Place(i)' \in Indices
  <2>1. i \in 1 .. MAX_KEYB_BUFFER - 1
    BY <1>2, <1>3, RingAssumption
  <2> QED BY <1>1, <2>1, PlaceIsInRange DEF Place
<1>4. RingQueue' \in [1 .. Count' -> Buffered]
  BY <1>1, <1>3 DEF RingQueue
<1> QED BY <1>2, <1>4 DEF RingQueue

(* A key that is typed comes last; the first one is dropped if the queue   *)
(* has as many keys as there may be.                                       *)
LEMMA EnqueueIsTyped ==
  ASSUME RingTypeOK, RingTypeOK', NEW k \in RingKeys, ring_enqueue(k)
  PROVE RingQueue' = IF Count = MAX_KEYB_BUFFER - 1
                     THEN Append(Tail(RingQueue), k) ELSE Append(RingQueue, k)
<1> DEFINE full == Count = MAX_KEYB_BUFFER - 1
           q == IF full THEN Append(Tail(RingQueue), k) ELSE Append(RingQueue, k)
<1>1. /\ Count \in 0 .. MAX_KEYB_BUFFER - 1
      /\ \A i \in 1 .. Count : Place(i) \in Indices
      /\ RingQueue \in Seq(Buffered) /\ Len(RingQueue) = Count
      /\ \A i \in 1 .. Count : RingQueue[i] = ring[Place(i)]
  BY QueueIsASequence
<1>2. head' = IF head = MAX_KEYB_BUFFER - 1 THEN 0 ELSE head + 1
  BY AfterWraps DEF RingTypeOK, ring_enqueue
<1>3. full <=> head' = tail
  BY <1>2, RingAssumption DEF RingTypeOK, Count, Indices
<1>4. tail' = IF full THEN IF tail = MAX_KEYB_BUFFER - 1 THEN 0 ELSE tail + 1 ELSE tail
  BY <1>3, AfterWraps DEF RingTypeOK, ring_enqueue
<1>5. Count' = IF full THEN Count ELSE Count + 1
  BY <1>2, <1>3, <1>4, RingAssumption DEF RingTypeOK, Count, Indices
<1>6. /\ q \in Seq(Buffered) /\ Len(q) = Count'
  BY <1>1, <1>5, RingAssumption DEF Buffered
<1>7. ASSUME NEW i \in 1 .. Count' PROVE ring'[Place(i)'] = q[i]
  <2>1. CASE i = Count'
    <3>1. Place(i)' = head
      BY <1>2, <1>4, <1>5, <2>1, RingAssumption DEF RingTypeOK, Count, Place, Indices
    <3>2. q[i] = k
      BY <1>1, <1>5, <2>1, RingAssumption DEF Buffered
    <3> QED BY <3>1, <3>2 DEF RingTypeOK, ring_enqueue
  <2>2. CASE i < Count' /\ ~full
    <3>1. tail' = tail /\ i \in 1 .. Count
      BY <1>1, <1>4, <1>5, <2>2
    <3>2. Place(i)' = Place(i) /\ Place(i) \in Indices
      BY <1>1, <3>1 DEF Place
    <3>3. Place(i) # head
      BY <3>1, RingAssumption DEF RingTypeOK, Count, Place, Indices
    <3>4. q[i] = RingQueue[i]
      BY <1>1, <2>2, <3>1
    <3> QED BY <1>1, <3>1, <3>2, <3>3, <3>4 DEF RingTypeOK, ring_enqueue
  <2>3. CASE i < Count' /\ full
    <3>1. Place(i)' = Place(i + 1) /\ Place(i + 1) # head /\ i + 1 \in 1 .. Count
      BY <1>1, <1>4, <1>5, <2>3, RingAssumption, SMTT(20) DEF RingTypeOK, Count, Place, Indices
    <3>2. q[i] = RingQueue[i + 1]
      BY <1>1, <2>3, <3>1
    <3> QED BY <1>1, <3>1, <3>2 DEF RingTypeOK, ring_enqueue
  <2> QED BY <1>1, <1>5, <2>1, <2>2, <2>3
<1>8. /\ RingQueue' \in Seq(Buffered) /\ Len(RingQueue') = Count'
      /\ \A i \in 1 .. Count' : RingQueue'[i] = ring'[Place(i)']
  BY QueueIsASequenceThen
<1> QED BY <1>6, <1>7, <1>8

(* The key that is taken is the first. *)
LEMMA DequeueIsTaken ==
  ASSUME RingTypeOK, RingTypeOK', ring_dequeue
  PROVE /\ RingQueue # <<>>
        /\ ring_key' = Head(RingQueue) /\ RingQueue' = Tail(RingQueue)
<1>1. /\ Count \in 0 .. MAX_KEYB_BUFFER - 1
      /\ \A i \in 1 .. Count : Place(i) \in Indices
      /\ RingQueue \in Seq(Buffered) /\ Len(RingQueue) = Count
      /\ \A i \in 1 .. Count : RingQueue[i] = ring[Place(i)]
  BY QueueIsASequence
<1>2. tail' = IF tail = MAX_KEYB_BUFFER - 1 THEN 0 ELSE tail + 1
  BY AfterWraps DEF RingTypeOK, ring_dequeue
<1>3. Count # 0 /\ Count' = Count - 1
  BY <1>2, RingAssumption DEF RingTypeOK, ring_dequeue, ring_has_key, Count, Indices
<1>4. RingQueue # <<>> /\ Len(Tail(RingQueue)) = Count'
  BY <1>1, <1>3
<1>5. ring_key' = Head(RingQueue)
  <2>1. Place(1) = tail
    BY RingAssumption DEF RingTypeOK, Place, Indices
  <2> QED BY <1>1, <1>3, <2>1 DEF ring_dequeue
<1>6. ASSUME NEW i \in 1 .. Count' PROVE ring'[Place(i)'] = Tail(RingQueue)[i]
  <2>1. i + 1 \in 1 .. Count
    BY <1>1, <1>3, <1>6
  <2>2. Place(i)' = Place(i + 1)
    BY <1>1, <1>2, <2>1, <1>6, RingAssumption DEF RingTypeOK, Place, Indices
  <2>3. Tail(RingQueue)[i] = RingQueue[i + 1]
    BY <1>1, <1>3, <1>6
  <2> QED BY <1>1, <2>1, <2>2, <2>3 DEF ring_dequeue
<1>7. Tail(RingQueue) \in Seq(Buffered)
  BY <1>1, <1>4
<1>8. /\ RingQueue' \in Seq(Buffered) /\ Len(RingQueue') = Count'
      /\ \A i \in 1 .. Count' : RingQueue'[i] = ring'[Place(i)']
  BY QueueIsASequenceThen
<1>9. RingQueue' = Tail(RingQueue)
  BY <1>4, <1>6, <1>7, <1>8
<1> QED BY <1>4, <1>5, <1>9

-----------------------------------------------------------------------------
(* keyb.c:338-358: the ring is a queue of the last keys, the oldest of     *)
(* which is dropped when a key is typed and there is no room.              *)
THEOREM RingImplementsKeyQueue == RingSpec => ImplementsKeyQueue
<1> USE DEF RingQueue
<1>1. RingInit => Ring!QueueInit
  <2> SUFFICES ASSUME RingInit PROVE Ring!QueueInit
    OBVIOUS
  <2>1. Count = 0
    BY DEF RingInit, Count
  <2> QED BY <2>1 DEF Ring!QueueInit
<1>2. RingTypeOK /\ RingTypeOK' /\ [RingNext]_ringVars
        => [Ring!QueueNext]_<<RingQueue, ring_key>>
  <2> SUFFICES ASSUME RingTypeOK, RingTypeOK', [RingNext]_ringVars
               PROVE [Ring!QueueNext]_<<RingQueue, ring_key>>
    OBVIOUS
  <2>1. ASSUME NEW k \in RingKeys, ring_enqueue(k) PROVE Ring!Typed(k)
    <3>1. Len(RingQueue) = Count
      BY QueueIsASequence
    <3> QED BY <2>1, <3>1, EnqueueIsTyped DEF Ring!Typed, ring_enqueue
  <2>2. ASSUME ring_dequeue PROVE Ring!Taken
    BY <2>2, DequeueIsTaken DEF Ring!Taken
  <2>3. ASSUME UNCHANGED ringVars PROVE UNCHANGED <<RingQueue, ring_key>>
    BY <2>3 DEF ringVars, Count, Place
  <2> QED BY <2>1, <2>2, <2>3 DEF RingNext, Ring!QueueNext
<1> QED BY <1>1, <1>2, RingIsTyped, PTL DEF RingSpec, ImplementsKeyQueue, Ring!QueueSpec

-----------------------------------------------------------------------------
(* Pong *)

BallColumns == 0 .. PONG_WINDOW_WIDTH - 1
BallRows == 0 .. PONG_WINDOW_HEIGHT - 1

(* The ball and the racket are in the window at every turn of the loop;    *)
(* the ball, because it is turned round in the cells at the walls.         *)
PongInv ==
  /\ pong_state \in {"INIT", "MOVE", "DRAW", "GAME_OVER"}
  /\ x \in BallColumns /\ y \in BallRows
  /\ dx \in {-1, 1} /\ dy \in {-1, 1}
  /\ racket \in 0 .. PONG_WINDOW_HEIGHT - PONG_RACKET_HEIGHT

(* A row and a column of the window are a cell of its buffer. *)
LEMMA CellIsInBuffer ==
  ASSUME NEW r \in BallRows, NEW c \in BallColumns
  PROVE r * PONG_WINDOW_WIDTH + c \in 0 .. PONG_WINDOW_WIDTH * PONG_WINDOW_HEIGHT - 1
<1> DEFINE w == PONG_WINDOW_WIDTH
           h == PONG_WINDOW_HEIGHT
<1>1. r \in Int /\ w \in Int /\ h \in Int /\ r * w \in Int /\ h * w \in Int
  BY PongAssumption DEF BallRows
<1>2. 0 <= r * w
  BY PongAssumption DEF BallRows
<1>3. (h - 1 - r) * w >= 0
  BY PongAssumption DEF BallRows
<1>4. (h - 1 - r) * w = h * w - w - r * w
  BY <1>1
<1>5. h * w = w * h
  BY <1>1
<1> HIDE DEF w, h
<1>6. r * w + c \in 0 .. w * h - 1
  <2>1. c \in 0 .. w - 1
    BY DEF BallColumns, w
  <2> QED BY <1>1, <1>2, <1>3, <1>4, <1>5, <2>1
<1> QED BY <1>6 DEF w, h

(* pong.c:75-127 keeps the ball and the racket in the window. *)
THEOREM PongInvariant == PongSpec => []PongInv
<1> USE PongAssumption DEF PongInv, BallColumns, BallRows
<1>1. PongInit => PongInv
  BY DEF PongInit
<1>2. PongInv /\ [PongNext]_pongVars => PongInv'
  <2> SUFFICES ASSUME PongInv, [PongNext]_pongVars PROVE PongInv'
    OBVIOUS
  <2>1. ASSUME start_ball PROVE PongInv'
    BY <2>1 DEF start_ball
  <2>2. ASSUME move_ball PROVE PongInv'
    <3>1. Bounced_dy \in {-1, 1} /\ y + Bounced_dy \in BallRows
      BY DEF Bounced_dy
    <3>2. CASE pong_state' = "GAME_OVER"
      BY <2>2, <3>1, <3>2 DEF move_ball
    <3>3. CASE pong_state' = "DRAW"
      <4>1. Bounced_dx \in {-1, 1} /\ x + Bounced_dx \in BallColumns
        BY DEF Bounced_dx
      <4>2. racket' \in 0 .. PONG_WINDOW_HEIGHT - PONG_RACKET_HEIGHT
        BY <2>2, <3>3 DEF move_ball, move_racket
      <4> QED BY <2>2, <3>1, <3>3, <4>1, <4>2 DEF move_ball
    <3> QED BY <2>2, <3>2, <3>3 DEF move_ball
  <2>3. ASSUME draw \/ show_game_over \/ UNCHANGED pongVars PROVE PongInv'
    BY <2>3 DEF draw, show_game_over, pongVars
  <2> QED BY <2>1, <2>2, <2>3 DEF PongNext
<1> QED BY <1>1, <1>2, PTL DEF PongSpec

(* pong.c:31, 118: no cell outside the window's buffer is written to. *)
THEOREM PongDrawsInside == PongSpec => []PongDrawsInItsWindow
<1>1. PongInv => PongDrawsInItsWindow
  <2> SUFFICES ASSUME PongInv
               PROVE CellsDrawn \subseteq 0 .. PONG_WINDOW_WIDTH * PONG_WINDOW_HEIGHT - 1
    BY DEF PongDrawsInItsWindow
  <2>1. y * PONG_WINDOW_WIDTH + x \in 0 .. PONG_WINDOW_WIDTH * PONG_WINDOW_HEIGHT - 1
    BY CellIsInBuffer DEF PongInv
  <2>2. ASSUME NEW i \in 0 .. PONG_RACKET_HEIGHT - 1
        PROVE (racket + i) * PONG_WINDOW_WIDTH
                \in 0 .. PONG_WINDOW_WIDTH * PONG_WINDOW_HEIGHT - 1
    <3>1. racket + i \in BallRows /\ 0 \in BallColumns
      BY <2>2, PongAssumption DEF PongInv, BallRows, BallColumns
    <3>2. (racket + i) * PONG_WINDOW_WIDTH + 0
            \in 0 .. PONG_WINDOW_WIDTH * PONG_WINDOW_HEIGHT - 1
      BY <3>1, CellIsInBuffer
    <3>3. (racket + i) * PONG_WINDOW_WIDTH \in Int
      BY <3>1, PongAssumption DEF BallRows
    <3> QED BY <3>2, <3>3
  <2> QED BY <2>1, <2>2 DEF CellsDrawn
<1> QED BY <1>1, PongInvariant, PTL

-----------------------------------------------------------------------------
(* The shell *)

Keys == Letters \cup {Space, NUL}

(* A line without a key that has no character is a line without a NUL, and *)
(* what has been executed is the line that is in the buffer.               *)
ShellInv ==
  /\ input \in Seq(Keys)
  /\ special_key \in BOOLEAN
  /\ LineIsShown
  /\ ~special_key => \A i \in DOMAIN input : input[i] # NUL
  /\ ~Reading => executed = execute_cmd(process_cmd(AsString(input)))

LEMMA FrontIsShorter ==
  ASSUME NEW K, NEW s \in Seq(K), s # <<>>
  PROVE  /\ Front(s) \in Seq(K) /\ Len(Front(s)) = Len(s) - 1
         /\ \A i \in 1 .. Len(s) - 1 : Front(s)[i] = s[i]
<1>1. Len(s) \in Nat /\ Len(s) # 0 /\ \A i \in 1 .. Len(s) : s[i] \in K
  OBVIOUS
<1> DEFINE n == Len(s) - 1
<1>2. n \in Int /\ \A i \in 1 .. n : s[i] \in K
  BY <1>1
<1> HIDE DEF n
<1>3. /\ SubSeq(s, 1, n) \in Seq(K)
      /\ Len(SubSeq(s, 1, n)) = IF 1 <= n THEN n - 1 + 1 ELSE 0
      /\ \A i \in 1 .. n - 1 + 1 : SubSeq(s, 1, n)[i] = s[1 + i - 1]
  BY <1>2, SubSeqProperties
<1>4. PICK t : t = Front(s)
  OBVIOUS
<1>5. t = SubSeq(s, 1, n)
  BY <1>4 DEF Front, n
<1>6. /\ t \in Seq(K) /\ Len(t) = IF 1 <= n THEN n - 1 + 1 ELSE 0
      /\ \A i \in 1 .. n - 1 + 1 : t[i] = s[1 + i - 1]
  BY <1>3, <1>5, Zenon
<1>7. /\ n \in Nat /\ n - 1 + 1 = n /\ (IF 1 <= n THEN n - 1 + 1 ELSE 0) = n
      /\ \A i \in 1 .. n : 1 + i - 1 = i
  <2>1. PICK l \in Nat : l = Len(s) /\ l # 0
    BY <1>1
  <2>2. n = l - 1
    BY <2>1 DEF n
  <2> QED BY ONLY <2>1, <2>2
<1>8. t \in Seq(K) /\ Len(t) = n /\ \A i \in 1 .. n : t[i] = s[i]
  BY ONLY <1>6, <1>7, Zenon
<1> QED BY <1>4, <1>8, Zenon DEF n

LEMMA BehindThePrompt ==
  ASSUME NEW K, NEW s \in Seq(K), NEW ch
  PROVE  /\ s # <<>> => Front(<<Prompt>> \o s) = <<Prompt>> \o Front(s)
         /\ ch \in K => Append(<<Prompt>> \o s, ch) = <<Prompt>> \o Append(s, ch)
         /\ Tail(<<Prompt>> \o s) = s /\ <<Prompt>> \o <<>> = <<Prompt>>
<1> DEFINE P == K \cup {Prompt}
<1>1. <<Prompt>> \in Seq(P) /\ s \in Seq(P) /\ <<Prompt>> \o s \in Seq(P)
  OBVIOUS
<1>2. ASSUME s # <<>> PROVE Front(<<Prompt>> \o s) = <<Prompt>> \o Front(s)
  <2>1. Front(s) \in Seq(P) /\ Len(Front(s)) = Len(s) - 1
        /\ \A i \in 1 .. Len(s) - 1 : Front(s)[i] = s[i]
    BY <1>1, <1>2, FrontIsShorter
  <2>2. <<Prompt>> \o s # <<>>
    BY <1>1
  <2>3. /\ Front(<<Prompt>> \o s) \in Seq(P)
        /\ Len(Front(<<Prompt>> \o s)) = Len(<<Prompt>> \o s) - 1
        /\ \A i \in 1 .. Len(<<Prompt>> \o s) - 1 :
             Front(<<Prompt>> \o s)[i] = (<<Prompt>> \o s)[i]
    BY <1>1, <2>2, FrontIsShorter
  <2>4. /\ <<Prompt>> \o Front(s) \in Seq(P)
        /\ Len(<<Prompt>> \o Front(s)) = Len(s)
        /\ \A i \in 1 .. Len(s) :
             (<<Prompt>> \o Front(s))[i] = (<<Prompt>> \o s)[i]
    BY <1>1, <1>2, <2>1
  <2>5. Len(<<Prompt>> \o s) - 1 = Len(s)
    BY <1>1
  <2> QED BY <2>3, <2>4, <2>5, SeqEqual
<1>3. ch \in K => Append(<<Prompt>> \o s, ch) = <<Prompt>> \o Append(s, ch)
  BY <1>1
<1>4. Tail(<<Prompt>> \o s) = s
  BY <1>1
<1>5. <<Prompt>> \o <<>> = <<Prompt>>
  OBVIOUS
<1> QED BY <1>2, <1>3, <1>4, <1>5

THEOREM ShellInvariant == ShellSpec => []ShellInv
<1>0. <<>> \in Seq(Keys) /\ <<Prompt>> \o <<>> = <<Prompt>>
  BY EmptySeq, BehindThePrompt
<1>00. \A i \in DOMAIN <<>> : <<>>[i] # NUL
  OBVIOUS
<1>1. ShellInit => ShellInv
  BY <1>0, <1>00, Zenon DEF ShellInit, ShellInv, LineIsShown, Reading
<1>2. ShellInv /\ [ShellNext]_shellVars => ShellInv'
  <2> SUFFICES ASSUME ShellInv, [ShellNext]_shellVars PROVE ShellInv'
    OBVIOUS
  <2>1. ASSUME erase PROVE ShellInv'
    <3>1. /\ input # <<>> /\ input \in Seq(Keys) /\ input' = Front(input)
          /\ executed' = NotYet /\ special_key' = special_key
      BY <2>1 DEF erase, ShellInv, Reading
    <3>2. /\ Front(input) \in Seq(Keys) /\ Len(Front(input)) = Len(input) - 1
          /\ \A i \in 1 .. Len(input) - 1 : Front(input)[i] = input[i]
      BY <3>1, FrontIsShorter
    <3>3. ASSUME ~special_key PROVE shown' = <<Prompt>> \o input'
      <4>1. shown = <<Prompt>> \o input
        BY <3>3 DEF ShellInv, LineIsShown
      <4>2. shown # <<>>
        BY <3>1, <4>1
      <4> QED BY <2>1, <3>1, <4>1, <4>2, BehindThePrompt DEF erase
    <3>4. ASSUME ~special_key PROVE \A i \in DOMAIN input' : input'[i] # NUL
      BY <3>1, <3>2, <3>4 DEF ShellInv
    <3> QED BY <3>1, <3>2, <3>3, <3>4 DEF ShellInv, LineIsShown, Reading
  <2>2. ASSUME NEW ch \in Letters \cup {Space, NUL}, save(ch) PROVE ShellInv'
    <3>1. /\ input \in Seq(Keys) /\ ch \in Keys /\ input' = Append(input, ch)
          /\ executed' = NotYet
      BY <2>2 DEF save, ShellInv, Reading, Keys
    <3>2. special_key' \in BOOLEAN /\ (~special_key' => ~special_key /\ ch # NUL)
      BY <2>2, Zenon DEF save
    <3>3. ASSUME ~special_key' PROVE shown' = <<Prompt>> \o input'
      <4>1. shown = <<Prompt>> \o input
        BY <3>2, <3>3 DEF ShellInv, LineIsShown
      <4> QED BY <2>2, <3>1, <3>2, <3>3, <4>1, BehindThePrompt DEF save
    <3>4. ASSUME ~special_key' PROVE \A i \in DOMAIN input' : input'[i] # NUL
      BY <3>1, <3>2, <3>4 DEF ShellInv
    <3> QED BY <3>1, <3>2, <3>3, <3>4 DEF ShellInv, LineIsShown, Reading
  <2>3. ASSUME enter PROVE ShellInv'
    BY <2>3 DEF enter, ShellInv, LineIsShown, Reading
  <2>4. ASSUME prompt PROVE ShellInv'
    <3>1. /\ input' = <<>> /\ shown' = <<Prompt>>
          /\ executed' = NotYet /\ special_key' = FALSE
      BY <2>4 DEF prompt
    <3> QED BY <1>0, <1>00, <3>1, Zenon DEF ShellInv, LineIsShown, Reading
  <2>5. ASSUME UNCHANGED shellVars PROVE ShellInv'
    BY <2>5 DEF shellVars, ShellInv, LineIsShown, Reading
  <2> QED BY <2>1, <2>2, <2>3, <2>4, <2>5 DEF ShellNext
<1> QED BY <1>1, <1>2, PTL DEF ShellSpec

(* shell.c:270-312: whatever is typed and erased, what the user sees is    *)
(* what will be executed.                                                  *)
THEOREM LineStaysShown == ShellSpec => []LineIsShown
<1>1. ShellInv => LineIsShown
  BY DEF ShellInv
<1> QED BY <1>1, ShellInvariant, PTL

-----------------------------------------------------------------------------
(* The words of a line.  process_cmd() walks through the line: spaces up   *)
(* to a, the first word up to b, spaces up to c, the second word up to d.  *)

LEMMA Least ==
  ASSUME NEW T \in SUBSET Nat, T # {}
  PROVE  \E n \in T : \A m \in T : n <= m
<1> DEFINE Less == OpToRel(<, Nat)
<1>1. PICK n \in T : \A m \in T : <<m, n>> \notin Less
  <2> HIDE DEF Less
  <2>1. IsWellFoundedOn(Less, Nat)
    BY NatLessThanWellFounded DEF Less
  <2> QED BY <2>1, WFMin
<1>2. ASSUME NEW m \in T PROVE n <= m
  <2>1. m \in Nat /\ n \in Nat /\ ~(m < n)
    BY <1>1 DEF OpToRel
  <2> QED BY <2>1
<1> QED BY <1>2

(* A prefix that cannot be continued is there, and it is the only one. *)
IsMaximal(n, B, k) == /\ k \in 0 .. n /\ \A i \in 1 .. k : i \in B
                      /\ k < n => k + 1 \notin B

LEMMA PrefixExists ==
  ASSUME NEW n \in Nat, NEW B PROVE \E k \in 0 .. n : IsMaximal(n, B, k)
<1> DEFINE T == {k \in 0 .. n : k = n \/ k + 1 \notin B}
<1>1. T \in SUBSET Nat /\ n \in T
  OBVIOUS
<1>2. PICK k \in T : \A m \in T : k <= m
  <2> HIDE DEF T
  <2> QED BY <1>1, Least
<1>3. ASSUME NEW i \in 1 .. k PROVE i \in B
  <2>1. i - 1 \notin T /\ i - 1 \in 0 .. n /\ i - 1 # n /\ (i - 1) + 1 = i
    BY <1>2
  <2> QED BY <2>1
<1> QED BY <1>2, <1>3 DEF IsMaximal

LEMMA PrefixIsUnique ==
  ASSUME NEW n \in Nat, NEW B, NEW k, NEW m, IsMaximal(n, B, k), IsMaximal(n, B, m)
  PROVE  k = m
<1>1. ASSUME NEW u \in 0 .. n, NEW v \in 0 .. n, u < v, IsMaximal(n, B, u),
             IsMaximal(n, B, v)
      PROVE  FALSE
  <2>1. u + 1 \in 1 .. v /\ u < n
    BY <1>1
  <2> QED BY <1>1, <2>1 DEF IsMaximal
<1>2. k \in 0 .. n /\ m \in 0 .. n
  BY DEF IsMaximal
<1>3. k < m \/ m < k \/ k = m
  BY <1>2
<1> QED BY <1>1, <1>2, <1>3

LEMMA PartOf ==
  ASSUME NEW K, NEW s, NEW lo \in Int, NEW hi \in Int, NEW k \in Nat,
         k = hi - lo + 1, \A i \in lo .. hi : s[i] \in K
  PROVE  /\ SubSeq(s, lo, hi) \in Seq(K) /\ Len(SubSeq(s, lo, hi)) = k
         /\ \A i \in 1 .. k : SubSeq(s, lo, hi)[i] = s[lo + i - 1]
<1>1. /\ SubSeq(s, lo, hi) \in Seq(K)
      /\ Len(SubSeq(s, lo, hi)) = IF lo <= hi THEN hi - lo + 1 ELSE 0
      /\ \A i \in 1 .. hi - lo + 1 : SubSeq(s, lo, hi)[i] = s[lo + i - 1]
  BY SubSeqProperties
<1>2. (IF lo <= hi THEN hi - lo + 1 ELSE 0) = k
  OBVIOUS
<1> QED BY <1>1, <1>2, Zenon

(* What is left of a line behind position a. *)
Rest(s, a) == SubSeq(s, a + 1, Len(s))

LEMMA RestIs ==
  ASSUME NEW K, NEW s \in Seq(K), NEW a \in 0 .. Len(s)
  PROVE  /\ Rest(s, a) \in Seq(K) /\ Len(Rest(s, a)) = Len(s) - a
         /\ \A i \in 1 .. Len(s) - a : Rest(s, a)[i] = s[a + i]
<1>1. PICK n \in Nat : n = Len(s)
  OBVIOUS
<1>2. \A i \in a + 1 .. n : s[i] \in K
  BY <1>1
<1>3. a + 1 \in Int /\ n \in Int
  BY <1>1
<1>4. PICK t : t = SubSeq(s, a + 1, n)
  OBVIOUS
<1>6. /\ n - a \in Nat /\ n - a = n - (a + 1) + 1
      /\ \A i \in 1 .. n - a : a + 1 + i - 1 = a + i
  BY <1>1
<1>5. /\ t \in Seq(K) /\ Len(t) = n - a
      /\ \A i \in 1 .. n - a : t[i] = s[a + 1 + i - 1]
  <2> DEFINE lo == a + 1
  <2>1. /\ SubSeq(s, lo, n) \in Seq(K) /\ Len(SubSeq(s, lo, n)) = n - a
        /\ \A i \in 1 .. n - a : SubSeq(s, lo, n)[i] = s[lo + i - 1]
    <3>1. lo \in Int /\ n - a = n - lo + 1 /\ \A i \in lo .. n : s[i] \in K
      BY <1>2, <1>3, <1>6
    <3> HIDE DEF lo
    <3> QED BY <1>6, <3>1, PartOf
  <2> QED BY <1>4, <2>1, Zenon
<1>7. t = Rest(s, a)
  BY <1>1, <1>4 DEF Rest
<1> QED BY <1>1, <1>5, <1>6, <1>7, Zenon

LEMMA PartOfRest ==
  ASSUME NEW K, NEW s \in Seq(K), NEW a \in 0 .. Len(s), NEW k \in 0 .. Len(s) - a
  PROVE  /\ SubSeq(Rest(s, a), 1, k) = SubSeq(s, a + 1, a + k)
         /\ Len(SubSeq(Rest(s, a), 1, k)) = k
         /\ Rest(Rest(s, a), k) = Rest(s, a + k)
<1> DEFINE t == Rest(s, a)
<1>0. PICK n \in Nat : n = Len(s)
  OBVIOUS
<1>1. t \in Seq(K) /\ Len(t) = n - a /\ \A i \in 1 .. n - a : t[i] = s[a + i]
  BY <1>0, RestIs
<1> HIDE DEF t
<1>2. /\ \A i \in 1 .. k : t[i] \in K
      /\ \A i \in a + 1 .. a + k : s[i] \in K
      /\ 1 \in Int /\ k \in Int /\ a + 1 \in Int /\ a + k \in Int
  BY <1>0, <1>1
<1>3. PICK u, v : u = SubSeq(t, 1, k) /\ v = SubSeq(s, a + 1, a + k)
  OBVIOUS
<1>6. /\ k \in Nat /\ k = k - 1 + 1 /\ k = a + k - (a + 1) + 1
      /\ \A i \in 1 .. k : 1 + i - 1 = i /\ a + 1 + i - 1 = a + i /\ i \in 1 .. n - a
  BY <1>0
<1>4. /\ u \in Seq(K) /\ Len(u) = k
      /\ \A i \in 1 .. k : u[i] = t[1 + i - 1]
  <2>1. /\ SubSeq(t, 1, k) \in Seq(K) /\ Len(SubSeq(t, 1, k)) = k
        /\ \A i \in 1 .. k : SubSeq(t, 1, k)[i] = t[1 + i - 1]
    BY <1>2, <1>6, PartOf
  <2> QED BY <1>3, <2>1, Zenon
<1>5. /\ v \in Seq(K) /\ Len(v) = k
      /\ \A i \in 1 .. k : v[i] = s[a + 1 + i - 1]
  <2> DEFINE lo == a + 1
             hi == a + k
  <2>1. /\ SubSeq(s, lo, hi) \in Seq(K) /\ Len(SubSeq(s, lo, hi)) = k
        /\ \A i \in 1 .. k : SubSeq(s, lo, hi)[i] = s[lo + i - 1]
    <3>1. /\ lo \in Int /\ hi \in Int /\ k = hi - lo + 1
          /\ \A i \in lo .. hi : s[i] \in K
      BY <1>2, <1>6
    <3> HIDE DEF lo, hi
    <3> QED BY <1>6, <3>1, PartOf
  <2> QED BY <1>3, <2>1, Zenon
<1>7. Len(u) = k /\ Len(v) = k /\ \A i \in 1 .. k : u[i] = v[i]
  BY <1>1, <1>4, <1>5, <1>6, ZenonT(20)
<1>8. u = v
  BY <1>4, <1>5, <1>7, SeqEqual
<1>9. k \in 0 .. Len(t) /\ a + k \in 0 .. Len(s)
  BY <1>0, <1>1
<1>10. /\ Rest(t, k) \in Seq(K) /\ Len(Rest(t, k)) = Len(t) - k
       /\ \A i \in 1 .. Len(t) - k : Rest(t, k)[i] = t[k + i]
  BY <1>1, <1>9, RestIs
<1>11. /\ Rest(s, a + k) \in Seq(K) /\ Len(Rest(s, a + k)) = Len(s) - (a + k)
       /\ \A i \in 1 .. Len(s) - (a + k) : Rest(s, a + k)[i] = s[a + k + i]
  BY <1>9, RestIs
<1>12. \A i \in 1 .. n - a - k : k + i \in 1 .. n - a /\ a + (k + i) = a + k + i
  BY <1>0
<1>13. n - a - k = n - (a + k)
  BY <1>0
<1>14. \A i \in 1 .. n - a - k : Rest(t, k)[i] = Rest(s, a + k)[i]
  BY <1>0, <1>1, <1>10, <1>11, <1>12, <1>13, ZenonT(20)
<1>15. Rest(t, k) = Rest(s, a + k)
  BY <1>0, <1>1, <1>10, <1>11, <1>13, <1>14, SeqEqual
<1> QED BY <1>3, <1>7, <1>8, <1>15 DEF t

LEMMA SpacesAreSkipped ==
  ASSUME NEW K, NEW s \in Seq(K), NEW a \in 0 .. Len(s)
  PROVE  \E b \in a .. Len(s) : /\ \A i \in a + 1 .. b : s[i] = Space
                                /\ b < Len(s) => s[b + 1] # Space
                                /\ SkipSpaces(Rest(s, a)) = Rest(s, b)
<1>1. PICK t, n : t = Rest(s, a) /\ n = Len(t)
  OBVIOUS
<1>2. /\ t \in Seq(K) /\ n = Len(s) - a /\ n \in Nat
      /\ \A i \in 1 .. n : t[i] = s[a + i]
  <2>1. /\ Rest(s, a) \in Seq(K) /\ Len(Rest(s, a)) = Len(s) - a
        /\ \A i \in 1 .. Len(s) - a : Rest(s, a)[i] = s[a + i]
    BY RestIs
  <2>2. Len(s) - a \in Nat
    OBVIOUS
  <2> QED BY <1>1, <2>1, <2>2, Zenon
<1> DEFINE B == {i \in 1 .. n : t[i] = Space}
<1>3. PICK k \in 0 .. n : IsMaximal(n, B, k)
  <2> HIDE DEF B
  <2> QED BY <1>2, PrefixExists
<1>4. \A i \in 1 .. k : i \in 1 .. n /\ t[i] = Space
  BY <1>3 DEF IsMaximal
<1>5. k < n => t[k + 1] # Space
  BY <1>2, <1>3 DEF IsMaximal
<1>6. LongestPrefix(t, LAMBDA ch : ch = Space) = SubSeq(t, 1, k)
  <2> DEFINE Q(m) == /\ \A i \in 1 .. m : t[i] = Space
                     /\ m < n => ~(t[m + 1] = Space)
  <2>1. k \in 0 .. n /\ Q(k)
    BY <1>4, <1>5
  <2>2. ASSUME NEW m \in 0 .. n, Q(m) PROVE m = k
    <3>1. IsMaximal(n, B, m)
      BY <1>2, <2>2 DEF IsMaximal
    <3> HIDE DEF B
    <3> QED BY <1>2, <1>3, <3>1, PrefixIsUnique
  <2> HIDE DEF Q
  <2>3. (CHOOSE m \in 0 .. n : Q(m)) = k
    BY <2>1, <2>2
  <2> QED BY <1>1, <2>3, Zenon DEF LongestPrefix, Q
<1>7. SkipSpaces(t) = Rest(s, a + k)
  <2>1. /\ Len(SubSeq(t, 1, k)) = k /\ Rest(t, k) = Rest(s, a + k)
    BY <1>1, <1>2, PartOfRest
  <2>2. SkipSpaces(t) = SubSeq(t, Len(SubSeq(t, 1, k)) + 1, Len(t))
    BY <1>6, Zenon DEF SkipSpaces, Without_
  <2> QED BY <2>1, <2>2, Zenon DEF Rest
<1>8. a + k \in a .. Len(s) /\ (a + k < Len(s) => k < n)
  BY <1>2
<1>9. ASSUME NEW i \in a + 1 .. a + k PROVE s[i] = Space
  <2>1. i - a \in 1 .. k /\ a + (i - a) = i
    OBVIOUS
  <2> QED BY <1>2, <1>4, <2>1
<1>10. a + k < Len(s) => s[a + k + 1] # Space
  <2> SUFFICES ASSUME a + k < Len(s) PROVE s[a + k + 1] # Space
    OBVIOUS
  <2>1. k + 1 \in 1 .. n /\ a + (k + 1) = a + k + 1
    BY <1>2
  <2> QED BY <1>2, <1>5, <1>8, <2>1
<1> QED BY <1>1, <1>7, <1>8, <1>9, <1>10

LEMMA WordIsRead ==
  ASSUME NEW K, NEW s \in Seq(K), NEW a \in 0 .. Len(s)
  PROVE  \E b \in a .. Len(s) :
           /\ \A i \in a + 1 .. b : s[i] # Space
           /\ b < Len(s) => s[b + 1] = Space
           /\ FirstWord(Rest(s, a)) = SubSeq(s, a + 1, b)
           /\ Without_(FirstWord(Rest(s, a)), Rest(s, a)) = Rest(s, b)
<1>1. PICK t, n : t = Rest(s, a) /\ n = Len(t)
  OBVIOUS
<1>2. /\ t \in Seq(K) /\ n = Len(s) - a /\ n \in Nat
      /\ \A i \in 1 .. n : t[i] = s[a + i]
  <2>1. /\ Rest(s, a) \in Seq(K) /\ Len(Rest(s, a)) = Len(s) - a
        /\ \A i \in 1 .. Len(s) - a : Rest(s, a)[i] = s[a + i]
    BY RestIs
  <2>2. Len(s) - a \in Nat
    OBVIOUS
  <2> QED BY <1>1, <2>1, <2>2, Zenon
<1> DEFINE B == {i \in 1 .. n : t[i] # Space}
<1>3. PICK k \in 0 .. n : IsMaximal(n, B, k)
  <2> HIDE DEF B
  <2> QED BY <1>2, PrefixExists
<1>4. \A i \in 1 .. k : i \in 1 .. n /\ t[i] # Space
  BY <1>3 DEF IsMaximal
<1>5. k < n => t[k + 1] = Space
  BY <1>2, <1>3 DEF IsMaximal
<1>6. FirstWord(t) = SubSeq(t, 1, k)
  <2> DEFINE Q(m) == /\ \A i \in 1 .. m : t[i] # Space
                     /\ m < n => ~(t[m + 1] # Space)
  <2>1. k \in 0 .. n /\ Q(k)
    BY <1>4, <1>5
  <2>2. ASSUME NEW m \in 0 .. n, Q(m) PROVE m = k
    <3>1. IsMaximal(n, B, m)
      BY <1>2, <2>2 DEF IsMaximal
    <3> HIDE DEF B
    <3> QED BY <1>2, <1>3, <3>1, PrefixIsUnique
  <2> HIDE DEF Q
  <2>3. (CHOOSE m \in 0 .. n : Q(m)) = k
    BY <2>1, <2>2
  <2> QED BY <1>1, <2>3, Zenon DEF FirstWord, LongestPrefix, Q
<1>7. /\ FirstWord(t) = SubSeq(s, a + 1, a + k)
      /\ Without_(FirstWord(t), t) = Rest(s, a + k)
  <2>1. /\ SubSeq(t, 1, k) = SubSeq(s, a + 1, a + k)
        /\ Len(SubSeq(t, 1, k)) = k /\ Rest(t, k) = Rest(s, a + k)
    BY <1>1, <1>2, PartOfRest
  <2> QED BY <1>6, <2>1, Zenon DEF Without_, Rest
<1>8. a + k \in a .. Len(s) /\ (a + k < Len(s) => k < n)
  BY <1>2
<1>9. ASSUME NEW i \in a + 1 .. a + k PROVE s[i] # Space
  <2>1. i - a \in 1 .. k /\ a + (i - a) = i
    OBVIOUS
  <2> QED BY <1>2, <1>4, <2>1
<1>10. a + k < Len(s) => s[a + k + 1] = Space
  <2> SUFFICES ASSUME a + k < Len(s) PROVE s[a + k + 1] = Space
    OBVIOUS
  <2>1. k + 1 \in 1 .. n /\ a + (k + 1) = a + k + 1
    BY <1>2
  <2> QED BY <1>2, <1>5, <1>8, <2>1
<1> QED BY <1>1, <1>7, <1>8, <1>9, <1>10

(* Where the words of a line start, and how many start up to position i.   *)
Starts(s) == {i \in DOMAIN s : s[i] # Space /\ (i = 1 \/ s[i - 1] = Space)}
UpTo(S, i) == {j \in S : j <= i}

LEMMA StartsAreFinite ==
  ASSUME NEW K, NEW s \in Seq(K)
  PROVE  /\ Starts(s) \in SUBSET (1 .. Len(s)) /\ IsFiniteSet(Starts(s))
         /\ Cardinality(Starts(s)) \in Nat
         /\ \A i : /\ IsFiniteSet(UpTo(Starts(s), i))
                   /\ Cardinality(UpTo(Starts(s), i)) \in Nat
                   /\ Cardinality(UpTo(Starts(s), i)) <= Cardinality(Starts(s))
<1>1. Starts(s) \in SUBSET (1 .. Len(s)) /\ Len(s) \in Int
  BY DEF Starts
<1>2. IsFiniteSet(1 .. Len(s))
  BY <1>1, FS_Interval
<1>3. IsFiniteSet(Starts(s))
  BY <1>1, <1>2, FS_Subset
<1>4. ASSUME NEW i
      PROVE  /\ IsFiniteSet(UpTo(Starts(s), i))
             /\ Cardinality(UpTo(Starts(s), i)) <= Cardinality(Starts(s))
  <2>1. UpTo(Starts(s), i) \in SUBSET Starts(s)
    BY DEF UpTo
  <2> QED BY <1>3, <2>1, FS_Subset
<1> QED BY <1>1, <1>3, <1>4, FS_CardinalityType

LEMMA NthIsUnique ==
  ASSUME NEW K, NEW s \in Seq(K), NEW a \in Starts(s), NEW c \in Starts(s),
         Cardinality(UpTo(Starts(s), a)) = Cardinality(UpTo(Starts(s), c))
  PROVE  a = c
<1> DEFINE S == Starts(s)
<1>1. ASSUME NEW u \in S, NEW v \in S, u < v,
             Cardinality(UpTo(S, u)) = Cardinality(UpTo(S, v))
      PROVE  FALSE
  <2>1. u \in Int /\ v \in Int /\ S \in SUBSET Int /\ IsFiniteSet(UpTo(S, v))
    BY StartsAreFinite
  <2>2. UpTo(S, u) \in SUBSET UpTo(S, v) /\ v \in UpTo(S, v) /\ v \notin UpTo(S, u)
    BY <1>1, <2>1 DEF UpTo
  <2>3. UpTo(S, v) = UpTo(S, u)
    BY <1>1, <2>1, <2>2, FS_Subset
  <2> QED BY <2>2, <2>3
<1>2. a \in Int /\ c \in Int
  BY StartsAreFinite
<1>3. a < c \/ c < a \/ a = c
  BY <1>2
<1> QED BY <1>1, <1>3

LEMMA NoSuchWord ==
  ASSUME NEW s, NEW m, Cardinality(Starts(s)) < m
  PROVE  Word(s, m) = <<>>
BY DEF Word, Starts

LEMMA WordIs ==
  ASSUME NEW K, NEW s \in Seq(K), NEW m \in Nat, NEW a \in Starts(s),
         Cardinality(UpTo(Starts(s), a)) = m, NEW b \in a .. Len(s),
         \A i \in a .. b : s[i] # Space, b < Len(s) => s[b + 1] = Space
  PROVE  Word(s, m) = SubSeq(s, a, b)
<1>1. ~(Cardinality(Starts(s)) < m)
  BY StartsAreFinite
<1> DEFINE First(i) == Cardinality({j \in Starts(s) : j <= i}) = m
           EndsAt(j) == /\ \A i \in a .. j : s[i] # Space
                        /\ j < Len(s) => s[j + 1] = Space
<1>2. (CHOOSE i \in Starts(s) : First(i)) = a
  <2>1. First(a)
    BY DEF UpTo
  <2>2. ASSUME NEW i \in Starts(s), First(i) PROVE i = a
    BY <2>2, NthIsUnique DEF UpTo
  <2> HIDE DEF First
  <2> QED BY <2>1, <2>2
<1>3. (CHOOSE j \in a .. Len(s) : EndsAt(j)) = b
  <2>1. EndsAt(b)
    OBVIOUS
  <2>2. ASSUME NEW j \in a .. Len(s), EndsAt(j) PROVE j = b
    <3>1. a \in Int /\ b \in Int /\ j \in Int
      BY StartsAreFinite
    <3>2. ~(j < b)
      <4> SUFFICES ASSUME j < b PROVE FALSE
        OBVIOUS
      <4>1. j + 1 \in a .. b /\ j < Len(s)
        BY <3>1
      <4> QED BY <2>2, <4>1
    <3>3. ~(b < j)
      <4> SUFFICES ASSUME b < j PROVE FALSE
        OBVIOUS
      <4>1. b + 1 \in a .. j /\ b < Len(s)
        BY <3>1
      <4> QED BY <2>2, <4>1
    <3> QED BY <3>1, <3>2, <3>3
  <2> HIDE DEF EndsAt
  <2> QED BY <2>1, <2>2
<1>4. Word(s, m) = LET f == CHOOSE i \in Starts(s) : First(i)
                       l == CHOOSE j \in f .. Len(s) :
                              /\ \A i \in f .. j : s[i] # Space
                              /\ j < Len(s) => s[j + 1] = Space
                   IN  SubSeq(s, f, l)
  BY <1>1, Zenon DEF Word, Starts
<1> HIDE DEF First
<1> QED BY <1>2, <1>3, <1>4, Zenon DEF EndsAt

LEMMA LineIsSplit ==
  ASSUME NEW K, NEW s \in Seq(K)
  PROVE  process_cmd(s) = [com |-> Word(s, 1), para |-> Word(s, 2)]
<1>1. PICK n \in Nat : n = Len(s)
  OBVIOUS
<1>2. Rest(s, 0) = s
  BY SubSeqFull DEF Rest
<1>3. PICK a \in 0 .. n : /\ \A i \in 1 .. a : s[i] = Space
                          /\ a < n => s[a + 1] # Space
                          /\ SkipSpaces(s) = Rest(s, a)
  <2>1. 0 \in 0 .. Len(s)
    BY <1>1
  <2>2. \E x1 \in 0 .. Len(s) : /\ \A i \in 0 + 1 .. x1 : s[i] = Space
                                /\ x1 < Len(s) => s[x1 + 1] # Space
                                /\ SkipSpaces(Rest(s, 0)) = Rest(s, x1)
    BY <2>1, SpacesAreSkipped
  <2> QED BY <1>1, <1>2, <2>2
<1>4. PICK b \in a .. n : /\ \A i \in a + 1 .. b : s[i] # Space
                          /\ b < n => s[b + 1] = Space
                          /\ FirstWord(Rest(s, a)) = SubSeq(s, a + 1, b)
                          /\ Without_(FirstWord(Rest(s, a)), Rest(s, a)) = Rest(s, b)
  BY <1>1, WordIsRead
<1>5. PICK c \in b .. n : /\ \A i \in b + 1 .. c : s[i] = Space
                          /\ c < n => s[c + 1] # Space
                          /\ SkipSpaces(Rest(s, b)) = Rest(s, c)
  <2>1. b \in 0 .. Len(s)
    BY <1>1
  <2>2. \E x1 \in b .. Len(s) : /\ \A i \in b + 1 .. x1 : s[i] = Space
                                /\ x1 < Len(s) => s[x1 + 1] # Space
                                /\ SkipSpaces(Rest(s, b)) = Rest(s, x1)
    BY <2>1, SpacesAreSkipped
  <2> QED BY <1>1, <2>2, Zenon
<1>6. PICK d \in c .. n : /\ \A i \in c + 1 .. d : s[i] # Space
                          /\ d < n => s[d + 1] = Space
                          /\ FirstWord(Rest(s, c)) = SubSeq(s, c + 1, d)
  <2>1. c \in 0 .. Len(s)
    BY <1>1
  <2>2. \E x1 \in c .. Len(s) :
          /\ \A i \in c + 1 .. x1 : s[i] # Space
          /\ x1 < Len(s) => s[x1 + 1] = Space
          /\ FirstWord(Rest(s, c)) = SubSeq(s, c + 1, x1)
          /\ Without_(FirstWord(Rest(s, c)), Rest(s, c)) = Rest(s, x1)
    BY <2>1, WordIsRead
  <2> QED BY <1>1, <2>2, Zenon
<1>7. process_cmd(s) = [com |-> SubSeq(s, a + 1, b), para |-> SubSeq(s, c + 1, d)]
  BY <1>3, <1>4, <1>5, <1>6, Zenon DEF process_cmd
<1> DEFINE S == Starts(s)
<1>8. /\ S \in SUBSET (1 .. n) /\ IsFiniteSet(S)
      /\ \A i \in 1 .. n : i \in S <=> s[i] # Space /\ (i = 1 \/ s[i - 1] = Space)
  BY <1>1, StartsAreFinite DEF Starts
<1>9. /\ \A i \in S : i \notin 1 .. a /\ i \notin a + 2 .. b /\ i \notin b + 1 .. c
                      /\ i \notin c + 2 .. d
  <2>1. ASSUME NEW i \in S, i \in a + 2 .. b \/ i \in c + 2 .. d PROVE FALSE
    <3>1. i - 1 \in a + 1 .. b \/ i - 1 \in c + 1 .. d
      BY <2>1
    <3>2. s[i - 1] # Space
      BY <1>4, <1>6, <3>1
    <3>3. i # 1
      BY <2>1
    <3> QED BY <1>8, <3>2, <3>3
  <2>2. ASSUME NEW i \in S, i \in 1 .. a \/ i \in b + 1 .. c PROVE FALSE
    BY <1>3, <1>5, <1>8, <2>2
  <2> QED BY <2>1, <2>2
<1>10. ASSUME a < n
       PROVE  /\ a + 1 \in S /\ b \in a + 1 .. n /\ UpTo(S, a + 1) = {a + 1}
              /\ \A i \in a + 1 .. b : s[i] # Space
  <2>1. s[a + 1] # Space /\ (a # 0 => s[a] = Space)
    BY <1>3, <1>10
  <2>2. a + 1 \in 1 .. n /\ (a + 1 = 1 \/ s[a + 1 - 1] = Space)
    BY <1>10, <2>1
  <2>3. a + 1 \in S
    BY <1>8, <2>1, <2>2
  <2>4. b # a
    BY <1>4, <1>10, <2>1
  <2>5. \A i \in S : i <= a + 1 => i = a + 1
    BY <1>8, <1>9
  <2>6. UpTo(S, a + 1) = {a + 1}
    BY <2>3, <2>5, <1>8 DEF UpTo
  <2> QED BY <1>4, <2>3, <2>4, <2>6
<1>11. ASSUME c < n
       PROVE  /\ c + 1 \in S /\ d \in c + 1 .. n /\ a < n /\ a + 1 # c + 1
              /\ UpTo(S, c + 1) = {a + 1} \cup {c + 1}
  <2>1. s[c + 1] # Space
    BY <1>5, <1>11
  <2>2. b < n /\ s[b + 1] = Space /\ c # b
    BY <1>4, <1>11, <2>1
  <2>3. s[c] = Space /\ c \in 1 .. n
    BY <1>5, <2>2
  <2>4. c + 1 \in S
    <3>1. c + 1 \in 1 .. n /\ c + 1 - 1 = c
      BY <1>11, <2>3
    <3> QED BY <1>8, <2>1, <2>3, <3>1
  <2>5. d # c
    BY <1>6, <1>11, <2>1
  <2>6. a < n /\ a + 1 # c + 1
    BY <2>2
  <2>7. a + 1 \in S /\ a + 1 <= c + 1
    BY <1>10, <2>6
  <2>8. \A i \in S : i <= c + 1 => i = a + 1 \/ i = c + 1
    BY <1>8, <1>9
  <2>9. UpTo(S, c + 1) = {a + 1} \cup {c + 1}
    BY <2>4, <2>7, <2>8, <1>8 DEF UpTo
  <2> QED BY <2>4, <2>5, <2>6, <2>9
<1>12. Word(s, 1) = SubSeq(s, a + 1, b)
  <2>1. CASE a < n
    <3>1. Cardinality(UpTo(S, a + 1)) = 1
      BY <1>10, <2>1, FS_Singleton
    <3>2. PICK f : f = a + 1
      OBVIOUS
    <3>3. /\ s \in Seq(K) /\ 1 \in Nat /\ f \in Starts(s)
          /\ Cardinality(UpTo(Starts(s), f)) = 1 /\ b \in f .. Len(s)
          /\ \A i \in f .. b : s[i] # Space
          /\ b < Len(s) => s[b + 1] = Space
      BY <1>1, <1>4, <1>10, <2>1, <3>1, <3>2
    <3>4. Word(s, 1) = SubSeq(s, f, b)
      BY ONLY <3>3, WordIs
    <3> QED BY <3>2, <3>4
  <2>2. CASE a = n
    <3>1. S = {}
      BY <1>8, <1>9, <2>2
    <3>2. Cardinality(Starts(s)) < 1
      BY <3>1, FS_EmptySet
    <3>3. SubSeq(s, a + 1, b) = <<>>
      BY <2>2, SubSeqEmpty
    <3> QED BY <3>2, <3>3, NoSuchWord
  <2> QED BY <2>1, <2>2
<1>13. Word(s, 2) = SubSeq(s, c + 1, d)
  <2>1. CASE c < n
    <3>1. Cardinality(UpTo(S, c + 1)) = 2
      <4>1. IsFiniteSet({a + 1}) /\ Cardinality({a + 1}) = 1 /\ c + 1 \notin {a + 1}
        BY <1>11, <2>1, FS_Singleton
      <4>2. Cardinality({a + 1} \cup {c + 1}) = Cardinality({a + 1}) + 1
        BY <4>1, FS_AddElement
      <4>3. Cardinality({a + 1} \cup {c + 1}) = 2
        BY ONLY <4>1, <4>2
      <4> QED BY <1>11, <2>1, <4>3
    <3>2. PICK f : f = c + 1
      OBVIOUS
    <3>3. /\ s \in Seq(K) /\ 2 \in Nat /\ f \in Starts(s)
          /\ Cardinality(UpTo(Starts(s), f)) = 2 /\ d \in f .. Len(s)
          /\ \A i \in f .. d : s[i] # Space
          /\ d < Len(s) => s[d + 1] = Space
      BY <1>1, <1>6, <1>11, <2>1, <3>1, <3>2
    <3>4. Word(s, 2) = SubSeq(s, f, d)
      BY ONLY <3>3, WordIs
    <3> QED BY <3>2, <3>4
  <2>2. CASE c = n
    <3>1. S \in SUBSET {a + 1}
      BY <1>8, <1>9, <2>2
    <3>2. Cardinality(Starts(s)) < 2
      <4>1. IsFiniteSet({a + 1}) /\ Cardinality({a + 1}) = 1
        BY FS_Singleton
      <4>2. Cardinality(S) <= Cardinality({a + 1})
        BY <3>1, <4>1, FS_Subset
      <4> QED BY <4>1, <4>2, StartsAreFinite
    <3>3. SubSeq(s, c + 1, d) = <<>>
      BY <2>2, SubSeqEmpty
    <3> QED BY <3>2, <3>3, NoSuchWord
  <2> QED BY <2>1, <2>2
<1> QED BY <1>7, <1>12, <1>13

LEMMA LineIsAString ==
  ASSUME NEW K, NEW s \in Seq(K), \A i \in DOMAIN s : s[i] # NUL
  PROVE  AsString(s) = s
<1>1. PICK n \in Nat : n = Len(s)
  OBVIOUS
<1> DEFINE Q(m) == /\ \A i \in 1 .. m : s[i] # NUL
                   /\ m < n => ~(s[m + 1] # NUL)
<1>2. n \in 0 .. n /\ Q(n)
  BY <1>1
<1>3. ASSUME NEW m \in 0 .. n, Q(m) PROVE m = n
  <2> SUFFICES ASSUME m < n PROVE FALSE
    OBVIOUS
  <2>1. m + 1 \in DOMAIN s
    BY <1>1
  <2> QED BY <1>3, <2>1
<1> HIDE DEF Q
<1>4. (CHOOSE m \in 0 .. n : Q(m)) = n
  BY <1>2, <1>3
<1>5. AsString(s) = SubSeq(s, 1, n)
  BY <1>1, <1>4, Zenon DEF AsString, LongestPrefix, Q
<1> QED BY <1>1, <1>5, SubSeqFull

(* shell.c:302-345, 348-409: the command that the first word of the shown  *)
(* line names is executed, with the second word, whatever the spaces; it   *)
(* is refused exactly if there is a second word that it does not take.     *)
THEOREM CommandStaysTheFirstWord == ShellSpec => []CommandIsTheFirstWord
<1>1. ShellInv => CommandIsTheFirstWord
  <2> SUFFICES ASSUME ShellInv, ~Reading, ~special_key
               PROVE  LET line == Tail(shown)
                          name == Word(line, 1)
                          known == name \in DOMAIN CommandNames
                          refused == /\ Word(line, 2) # <<>>
                                     /\ CommandNames[name] \notin TakeParameter
                      IN /\ ~known => executed = Unknown
                         /\ known /\ refused => executed = Invalid
                         /\ known /\ ~refused =>
                              executed = [command |-> CommandNames[name],
                                          para |-> Word(line, 2)]
    BY Zenon DEF CommandIsTheFirstWord
  <2>1. input \in Seq(Keys) /\ shown = <<Prompt>> \o input
    BY DEF ShellInv, LineIsShown
  <2>2. Tail(shown) = input
    BY <2>1, BehindThePrompt
  <2>3. AsString(input) = input
    BY <2>1, LineIsAString DEF ShellInv
  <2>4. process_cmd(input) = [com |-> Word(input, 1), para |-> Word(input, 2)]
    BY <2>1, LineIsSplit
  <2>5. executed = execute_cmd([com |-> Word(input, 1), para |-> Word(input, 2)])
    BY <2>3, <2>4 DEF ShellInv
  <2>6. PICK w, v : w = Word(input, 1) /\ v = Word(input, 2)
    OBVIOUS
  <2>7. executed = IF w \notin DOMAIN CommandNames THEN Unknown
                   ELSE IF v # <<>> /\ CommandNames[w] \notin TakeParameter
                   THEN Invalid
                   ELSE [command |-> CommandNames[w], para |-> v]
    BY <2>5, <2>6, Zenon DEF execute_cmd
  <2> QED BY <2>2, <2>6, <2>7, Zenon
<1> QED BY <1>1, ShellInvariant, PTL

-----------------------------------------------------------------------------
(* The decoder of KeyDecoder *)

(* What does not come right again: the decoder is then one key behind, or  *)
(* has Caps Lock the wrong way round.                                      *)
Misled == \E what \in odd : what \notin {"shift", "alt", "table"}

CapsRight == capslock = IF "caps" \in down THEN 1 ELSE 0
ShiftHeld == down \cap Shifts # {}
ShiftRight == "shift" \notin odd => shift = IF ShiftHeld THEN 1 ELSE 0
AltRight == "alt" \notin odd => alt = 0

(* The codes that are still to come, with ignore and special. *)
Comes(cs, i, s) == codes = cs /\ ignore = i /\ special = s

(* Between two keys. *)
KeyIsDone ==
  /\ Comes(<<>>, IF "printscreen" \in down THEN 1 ELSE 0, 0)
  /\ CapsRight /\ ShiftRight /\ AltRight
  /\ odd = {} => keystroke = wanted

(* Within a key that gives a keystroke. *)
CodeOf == [a |-> 30, quote |-> 40, slash |-> 53, enter |-> 28, kp7 |-> 71]
SpecialCode == [up |-> 72, home |-> 71, kpslash |-> 53, kpenter |-> 28]
CharacterComes ==
  /\ "printscreen" \notin down /\ keystroke = None
  /\ CapsRight /\ ShiftRight /\ AltRight
  /\ \/ \E k \in DOMAIN CodeOf :
          /\ Comes(<<CodeOf[k]>>, 0, 0) /\ wanted = Wanted(k)
          /\ Mistabled(k) => odd # {}
     \/ \E k \in DOMAIN SpecialCode :
          /\ Comes(<<224, SpecialCode[k]>>, 0, 0) \/ Comes(<<SpecialCode[k]>>, 0, 1)
          /\ wanted = Wanted(k)

(* Within a key that sets a flag. *)
Quiet == "printscreen" \notin down /\ keystroke = None /\ wanted = None
ShiftComes ==
  /\ Quiet /\ CapsRight /\ AltRight
  /\ \/ ShiftHeld /\ (Comes(<<42>>, 0, 0) \/ Comes(<<54>>, 0, 0))
     \/ ("shift" \notin odd => ~ShiftHeld) /\ (Comes(<<170>>, 0, 0) \/ Comes(<<182>>, 0, 0))
CapsComes ==
  /\ Quiet /\ ShiftRight /\ AltRight
  /\ \/ Comes(<<58>>, 0, 0) /\ capslock = 0 /\ "caps" \in down
     \/ Comes(<<186>>, 0, 0) /\ capslock = 1 /\ "caps" \notin down
AltComes ==
  /\ Quiet /\ CapsRight /\ ShiftRight
  /\ \/ Comes(<<56>>, 0, 0) /\ "alt" \in odd
     \/ Comes(<<184>>, 0, 0) /\ AltRight
     \/ Comes(<<168>>, 0, 0)

(* Within a key that has no effect. *)
NothingComes ==
  /\ Quiet /\ CapsRight /\ ShiftRight /\ AltRight
  /\ \/ \E c \in {29, 156, 157, 158, 181, 199} : Comes(<<c>>, 0, 0)
     \/ \E c \in {29, 156, 157, 181, 199, 200} :
          Comes(<<224, c>>, 0, 0) \/ Comes(<<c>>, 0, 1)

(* Within the keys that make the decoder skip codes. *)
PauseComes ==
  /\ Quiet /\ CapsRight /\ ShiftRight /\ AltRight
  /\ \/ Comes(<<225, 29, 69, 225, 157, 197>>, 0, 0)
     \/ Comes(<<29, 69, 225, 157, 197>>, 5, 0)
     \/ Comes(<<69, 225, 157, 197>>, 4, 0)
     \/ Comes(<<225, 157, 197>>, 3, 0)
     \/ Comes(<<157, 197>>, 2, 0)
     \/ Comes(<<197>>, 1, 0)
PrintScreenComes ==
  /\ "printscreen" \in down /\ keystroke = None /\ wanted = None
  /\ CapsRight /\ ShiftRight /\ AltRight
  /\ \/ Comes(<<224, 42, 224, 55>>, 0, 0)
     \/ Comes(<<42, 224, 55>>, 0, 1)
     \/ Comes(<<224, 55>>, 3, 0)
     \/ Comes(<<55>>, 2, 0)
PrintScreenGoes ==
  /\ Quiet /\ CapsRight /\ ShiftRight /\ AltRight
  /\ "shift" \notin odd => ~ShiftHeld
  /\ \/ Comes(<<224, 183, 224, 170>>, 1, 0)
     \/ Comes(<<183, 224, 170>>, 0, 0)
     \/ Comes(<<224, 170>>, 0, 0)
     \/ Comes(<<170>>, 0, 1)

DecoderInv == \/ Misled \/ KeyIsDone \/ CharacterComes \/ ShiftComes \/ CapsComes \/ AltComes
              \/ NothingComes \/ PauseComes \/ PrintScreenComes \/ PrintScreenGoes

(* A turn of the loop, by the code that comes. *)
Flags == <<shift, control, alt, capslock, keystroke>>

LEMMA SkipsCode ==
  ASSUME NEW ch, Decode(ch), ignore \in 1 .. 5
  PROVE  ignore' = ignore - 1 /\ special' = Dec(special) /\ UNCHANGED Flags
BY DEF Decode, ignored_code, NextCode, Flags

LEMMA BeginsPause ==
  ASSUME Decode(225), ignore = 0
  PROVE  ignore' = 5 /\ special' = Dec(special) /\ UNCHANGED Flags
BY DEF Decode, ignored_code, NextCode, Flags

LEMMA BeginsSpecial ==
  ASSUME Decode(224), ignore = 0
  PROVE  ignore' = 0 /\ special' = 1 /\ UNCHANGED Flags
BY DEF Decode, ignored_code, Flags

LEMMA PressesCode ==
  ASSUME NEW ch \in 0 .. 127, Decode(ch), ignore = 0
  PROVE  pressed(ch) /\ special' = Dec(special)
BY DEF Decode, ignored_code, NextCode

LEMMA ReleasesCode ==
  ASSUME NEW ch \in 0 .. 127, Decode(ch + 128), ignore = 0, ch \notin {96, 97}
  PROVE  released(ch) /\ special' = Dec(special)
<1>1. ch + 128 >= 128 /\ ch + 128 \notin {224, 225} /\ ~(ch + 128 < 128) /\ ch + 128 - 128 = ch
  OBVIOUS
<1> QED BY <1>1 DEF Decode, ignored_code, NextCode

(* The codes that a turn leaves. *)
LEMMA RestOfCodes ==
  ASSUME NEW s, NEW u, Len(s) \in Nat \ {0}, s = [n \in 1 .. Len(s) |-> s[n]],
         u = [n \in 1 .. Len(s) - 1 |-> u[n]],
         \A n \in 1 .. Len(s) - 1 : u[n] = s[n + 1]
  PROVE  Head(s) = s[1] /\ Tail(s) = u
<1> DEFINE S == {s[n] : n \in 1 .. Len(s)}
<1>1. s \in Seq(S)
  <2>1. PICK k : k = Len(s)
    OBVIOUS
  <2>2. s \in [1 .. k -> S] /\ k \in Nat
    BY <2>1
  <2> QED BY <2>2
<1> HIDE DEF S
<1>2. s # <<>>
  BY <1>1
<1>3. PICK rest, m : rest = Tail(s) /\ m = Len(s)
  OBVIOUS
<1>4. /\ m \in Nat \ {0} /\ rest \in Seq(S) /\ Len(rest) = m - 1
      /\ \A n \in 1 .. m - 1 : rest[n] = s[n + 1]
  BY ONLY <1>1, <1>2, <1>3
<1>5. Head(s) = s[1]
  BY ONLY <1>1, <1>2
<1>6. rest = [n \in 1 .. m - 1 |-> rest[n]]
  BY ONLY <1>4
<1>7. u = [n \in 1 .. m - 1 |-> u[n]] /\ \A n \in 1 .. m - 1 : u[n] = s[n + 1]
  BY <1>3
<1>8. rest = u
  BY ONLY <1>4, <1>6, <1>7
<1> QED BY <1>3, <1>5, <1>8

LEMMA NextOfCodes ==
  ASSUME scan_code
  PROVE  /\ UNCHANGED <<down, wanted, odd>>
         /\ \A ch : codes = <<ch>>
              => Decode(ch) /\ codes' = <<>>
         /\ \A ch, c2 : codes = <<ch, c2>>
              => Decode(ch) /\ codes' = <<c2>>
         /\ \A ch, c2, c3 : codes = <<ch, c2, c3>>
              => Decode(ch) /\ codes' = <<c2, c3>>
         /\ \A ch, c2, c3, c4 : codes = <<ch, c2, c3, c4>>
              => Decode(ch) /\ codes' = <<c2, c3, c4>>
         /\ \A ch, c2, c3, c4, c5 : codes = <<ch, c2, c3, c4, c5>>
              => Decode(ch) /\ codes' = <<c2, c3, c4, c5>>
         /\ \A ch, c2, c3, c4, c5, c6 : codes = <<ch, c2, c3, c4, c5, c6>>
              => Decode(ch) /\ codes' = <<c2, c3, c4, c5, c6>>
<1>1. UNCHANGED <<down, wanted, odd>> /\ Decode(Head(codes)) /\ codes' = Tail(codes)
  BY DEF scan_code, typistVars
<1>2. \A ch : codes = <<ch>> => Decode(ch) /\ codes' = <<>>
  <2>1. \A ch : Head(<<ch>>) = ch /\ Tail(<<ch>>) = <<>>
    OBVIOUS
  <2> QED BY <1>1, <2>1, Zenon
<1>3. \A ch, c2 : codes = <<ch, c2>> => Decode(ch) /\ codes' = <<c2>>
  <2>1. \A ch, c2 : Head(<<ch, c2>>) = ch /\ Tail(<<ch, c2>>) = <<c2>>
    OBVIOUS
  <2> QED BY <1>1, <2>1, Zenon
<1>4. \A ch, c2, c3 : codes = <<ch, c2, c3>> => Decode(ch) /\ codes' = <<c2, c3>>
  <2>1. \A ch, c2, c3 : Head(<<ch, c2, c3>>) = ch /\ Tail(<<ch, c2, c3>>) = <<c2, c3>>
    OBVIOUS
  <2> QED BY <1>1, <2>1, Zenon
<1>5. \A ch, c2, c3, c4 :
        codes = <<ch, c2, c3, c4>> => Decode(ch) /\ codes' = <<c2, c3, c4>>
  <2> TAKE ch, c2, c3, c4
  <2>1. PICK s, u : s = <<ch, c2, c3, c4>> /\ u = <<c2, c3, c4>>
    OBVIOUS
  <2>2. /\ Len(s) = 4 /\ s = [m \in 1 .. Len(s) |-> s[m]] /\ s[1] = ch
        /\ u = [m \in 1 .. Len(s) - 1 |-> u[m]]
    BY <2>1
  <2>3. \A m \in 1 .. Len(s) - 1 : u[m] = s[m + 1]
    BY <2>1
  <2>4. Len(s) \in Nat \ {0}
    BY <2>2
  <2>5. Head(s) = s[1] /\ Tail(s) = u
    BY <2>2, <2>3, <2>4, RestOfCodes, Zenon
  <2> QED BY <1>1, <2>1, <2>2, <2>5, Zenon
<1>6. \A ch, c2, c3, c4, c5 :
        codes = <<ch, c2, c3, c4, c5>> => Decode(ch) /\ codes' = <<c2, c3, c4, c5>>
  <2> TAKE ch, c2, c3, c4, c5
  <2>1. PICK s, u : s = <<ch, c2, c3, c4, c5>> /\ u = <<c2, c3, c4, c5>>
    OBVIOUS
  <2>2. /\ Len(s) = 5 /\ s = [m \in 1 .. Len(s) |-> s[m]] /\ s[1] = ch
        /\ u = [m \in 1 .. Len(s) - 1 |-> u[m]]
    BY <2>1
  <2>3. \A m \in 1 .. Len(s) - 1 : u[m] = s[m + 1]
    BY <2>1
  <2>4. Len(s) \in Nat \ {0}
    BY <2>2
  <2>5. Head(s) = s[1] /\ Tail(s) = u
    BY <2>2, <2>3, <2>4, RestOfCodes, Zenon
  <2> QED BY <1>1, <2>1, <2>2, <2>5, Zenon
<1>7. \A ch, c2, c3, c4, c5, c6 :
        codes = <<ch, c2, c3, c4, c5, c6>> => Decode(ch) /\ codes' = <<c2, c3, c4, c5, c6>>
  <2> TAKE ch, c2, c3, c4, c5, c6
  <2>1. PICK s, u : s = <<ch, c2, c3, c4, c5, c6>> /\ u = <<c2, c3, c4, c5, c6>>
    OBVIOUS
  <2>2. /\ Len(s) = 6 /\ s = [m \in 1 .. Len(s) |-> s[m]] /\ s[1] = ch
        /\ u = [m \in 1 .. Len(s) - 1 |-> u[m]]
    BY <2>1
  <2>3. \A m \in 1 .. Len(s) - 1 : u[m] = s[m + 1]
    BY <2>1
  <2>4. Len(s) \in Nat \ {0}
    BY <2>2
  <2>5. Head(s) = s[1] /\ Tail(s) = u
    BY <2>2, <2>3, <2>4, RestOfCodes, Zenon
  <2> QED BY <1>1, <2>1, <2>2, <2>5, Zenon
<1> QED BY <1>1, <1>2, <1>3, <1>4, <1>5, <1>6, <1>7

LEMMA TypistRests ==
  ASSUME UNCHANGED <<down, wanted, odd>>
  PROVE  /\ ShiftHeld' <=> ShiftHeld
         /\ UNCHANGED capslock => (CapsRight' <=> CapsRight)
         /\ UNCHANGED shift => (ShiftRight' <=> ShiftRight)
         /\ UNCHANGED alt => (AltRight' <=> AltRight)
         /\ UNCHANGED keystroke => (Quiet' <=> Quiet)
BY DEF ShiftHeld, CapsRight, ShiftRight, AltRight, Quiet

LEMMA CodesOfCharacters ==
  /\ DOMAIN CodeOf = {"a", "quote", "slash", "enter", "kp7"}
  /\ CodeOf["a"] = 30 /\ CodeOf["quote"] = 40 /\ CodeOf["slash"] = 53
  /\ CodeOf["enter"] = 28 /\ CodeOf["kp7"] = 71
  /\ DOMAIN SpecialCode = {"up", "home", "kpslash", "kpenter"}
  /\ SpecialCode["up"] = 72 /\ SpecialCode["home"] = 71
  /\ SpecialCode["kpslash"] = 53 /\ SpecialCode["kpenter"] = 28
BY DEF CodeOf, SpecialCode

(* The three tables, at the code of a key. *)
LEMMA TablesHave ==
  ASSUME NEW k \in DOMAIN CodeOf
  PROVE  LET ch == CodeOf[k] IN
         /\ ch \in Coded /\ ch # 72
         /\ small[ch] = CASE k = "a" -> "a" [] k = "quote" -> "quote" [] k = "slash" -> "/"
                          [] k = "enter" -> "enter" [] k = "kp7" -> "7"
         /\ shfted[ch] = CASE k = "a" -> "A" [] k = "quote" -> "dquote" [] k = "slash" -> "?"
                          [] k = "enter" -> "enter" [] k = "kp7" -> None
         /\ capped[ch] = CASE k = "a" -> "A" [] k = "quote" -> None [] k = "slash" -> "/"
                          [] k = "enter" -> "enter" [] k = "kp7" -> "7"
<1>1. /\ small[28] = "enter" /\ small[30] = "a" /\ small[40] = "quote"
      /\ small[53] = "/" /\ small[71] = "7"
  BY DEF small, Coded
<1>2. /\ shfted[28] = "enter" /\ shfted[30] = "A" /\ shfted[40] = "dquote"
      /\ shfted[53] = "?" /\ shfted[71] = None
  BY DEF shfted, Coded
<1>3. /\ capped[28] = "enter" /\ capped[30] = "A" /\ capped[40] = None
      /\ capped[53] = "/" /\ capped[71] = "7"
  <2>1. DOMAIN small = {28, 30, 40, 53, 71}
    BY DEF small, Coded
  <2> QED BY <1>1, <2>1 DEF capped
<1>4. {28, 30, 40, 53, 71} = Coded
  BY DEF Coded
<1> QED BY <1>1, <1>2, <1>3, <1>4, CodesOfCharacters

(* The tables have what a key should give, but where they are known not to. *)
LEMMA CharacterIsRight ==
  ASSUME NEW k \in DOMAIN CodeOf, special = 0, alt = 0, CapsRight,
         shift = IF ShiftHeld THEN 1 ELSE 0, ~Mistabled(k)
  PROVE  get_keycode_of(CodeOf[k]) = Wanted(k) /\ Wanted(k) # None
<1>1. PICK ch : ch = CodeOf[k]
  OBVIOUS
<1>2. get_keycode_of(ch) = IF Caps THEN capped[ch] ELSE IF Shifted THEN shfted[ch] ELSE small[ch]
  <2>1. ch \in Coded /\ ch # 72
    BY <1>1, TablesHave
  <2>2. (capslock # 0 <=> Caps) /\ (shift # 0 <=> Shifted)
    BY DEF CapsRight, ShiftHeld, Caps, Shifted
  <2> QED BY <2>1, <2>2 DEF get_keycode_of
<1>3. CASE k = "a"
  BY <1>1, <1>2, <1>3, TablesHave DEF Wanted, None
<1>4. CASE k = "quote"
  BY <1>1, <1>2, <1>4, TablesHave DEF Wanted, Mistabled, None
<1>5. CASE k = "slash"
  BY <1>1, <1>2, <1>5, TablesHave DEF Wanted, Mistabled, None
<1>6. CASE k = "enter"
  BY <1>1, <1>2, <1>6, TablesHave DEF Wanted, None
<1>7. CASE k = "kp7"
  BY <1>1, <1>2, <1>7, TablesHave DEF Wanted, Mistabled, None
<1> QED BY <1>3, <1>4, <1>5, <1>6, <1>7, CodesOfCharacters

LEMMA CharacterTurn ==
  ASSUME CharacterComes, scan_code PROVE DecoderInv'
<1>1. /\ UNCHANGED <<down, wanted, odd>> /\ keystroke = None
      /\ "printscreen" \notin down /\ CapsRight /\ ShiftRight /\ AltRight
  BY NextOfCodes DEF CharacterComes
<1>2. \A k : Wanted(k)' = Wanted(k) /\ (Mistabled(k)' <=> Mistabled(k))
  BY <1>1 DEF Wanted, Mistabled, Caps, Shifted
<1>3. ASSUME NEW ch \in {28, 30, 40, 53, 71, 72}, Decode(ch), codes' = <<>>,
             ignore = 0, special \in {0, 1},
             odd = {} => get_keycode_of(ch) = wanted /\ wanted # None
      PROVE  DecoderInv'
  <2>1. pressed(ch) /\ special' = Dec(special)
    <3>1. ch \in 0 .. 127
      OBVIOUS
    <3> QED BY <1>3, <3>1, PressesCode, Zenon
  <2>2. /\ ignore' = 0 /\ special' = 0 /\ alt' = alt /\ shift' = shift /\ capslock' = capslock
        /\ keystroke' = IF get_keycode_of(ch) = None THEN keystroke ELSE get_keycode_of(ch)
    BY <1>3, <2>1 DEF pressed, PrintScreen, Dec
  <2>3. odd = {} => keystroke' = wanted
    BY <1>3, <2>2
  <2>4. KeyIsDone'
    BY <1>1, <1>3, <2>2, <2>3, TypistRests DEF KeyIsDone, Comes
  <2> QED BY <2>4 DEF DecoderInv
<1>4. ASSUME NEW k \in DOMAIN CodeOf, Comes(<<CodeOf[k]>>, 0, 0), wanted = Wanted(k),
             Mistabled(k) => odd # {}
      PROVE  DecoderInv'
  <2>1. /\ Decode(CodeOf[k]) /\ codes' = <<>> /\ ignore = 0 /\ special = 0
        /\ CodeOf[k] \in {28, 30, 40, 53, 71, 72}
    BY <1>4, NextOfCodes, CodesOfCharacters DEF Comes
  <2>2. odd = {} => get_keycode_of(CodeOf[k]) = wanted /\ wanted # None
    <3> SUFFICES ASSUME odd = {} PROVE get_keycode_of(CodeOf[k]) = wanted /\ wanted # None
      OBVIOUS
    <3>1. alt = 0 /\ shift = IF ShiftHeld THEN 1 ELSE 0
      BY <1>1 DEF AltRight, ShiftRight
    <3> QED BY <1>1, <1>4, <2>1, <3>1, CharacterIsRight
  <2> QED BY <1>3, <2>1, <2>2
<1>5. ASSUME NEW k \in DOMAIN SpecialCode, Comes(<<224, SpecialCode[k]>>, 0, 0),
             wanted = Wanted(k)
      PROVE  DecoderInv'
  <2>1. Decode(224) /\ codes' = <<SpecialCode[k]>> /\ ignore = 0
    BY <1>5, NextOfCodes DEF Comes
  <2>2. ignore' = 0 /\ special' = 1 /\ UNCHANGED Flags
    BY <2>1, BeginsSpecial
  <2>3. CharacterComes'
    BY <1>1, <1>2, <1>5, <2>1, <2>2, TypistRests DEF CharacterComes, Comes, Flags
  <2> QED BY <2>3 DEF DecoderInv
<1>6. ASSUME NEW k \in DOMAIN SpecialCode, Comes(<<SpecialCode[k]>>, 0, 1), wanted = Wanted(k)
      PROVE  DecoderInv'
  <2>1. /\ Decode(SpecialCode[k]) /\ codes' = <<>> /\ ignore = 0 /\ special = 1
        /\ SpecialCode[k] \in {28, 30, 40, 53, 71, 72}
    BY <1>6, NextOfCodes, CodesOfCharacters DEF Comes
  <2>2. get_keycode_of(SpecialCode[k]) = special_keycode(SpecialCode[k])
    BY <2>1 DEF get_keycode_of
  <2>3. special_keycode(SpecialCode[k]) = Wanted(k) /\ Wanted(k) # None
    BY CodesOfCharacters DEF special_keycode, Wanted, None
  <2> QED BY <1>3, <1>6, <2>1, <2>2, <2>3
<1> QED BY <1>4, <1>5, <1>6 DEF CharacterComes

(* A code that leaves the flags as they should be ends a quiet key. *)
LEMMA QuietIsDone ==
  ASSUME Quiet, UNCHANGED <<down, wanted, odd>>, UNCHANGED keystroke,
         codes' = <<>>, ignore' = 0, special' = 0,
         CapsRight', ShiftRight', AltRight'
  PROVE  DecoderInv'
<1>1. KeyIsDone'
  BY DEF KeyIsDone, Quiet, Comes
<1> QED BY <1>1 DEF DecoderInv

LEMMA ShiftTurn ==
  ASSUME ShiftComes, scan_code PROVE DecoderInv'
<1>1. /\ UNCHANGED <<down, wanted, odd>>
      /\ Quiet /\ CapsRight /\ AltRight
  BY NextOfCodes DEF ShiftComes
<1>2. CASE ShiftHeld /\ (Comes(<<42>>, 0, 0) \/ Comes(<<54>>, 0, 0))
  <2>1. PICK ch \in {42, 54} : Comes(<<ch>>, 0, 0)
    BY <1>2
  <2>2. Decode(ch) /\ codes' = <<>> /\ ignore = 0 /\ special = 0
    BY <2>1, NextOfCodes DEF Comes
  <2>3. pressed(ch) /\ special' = Dec(special)
    <3>1. ch \in 0 .. 127
      OBVIOUS
    <3> QED BY <2>2, <3>1, PressesCode, Zenon
  <2>4. ignore' = 0 /\ special' = 0 /\ alt' = alt /\ shift' = 1 /\ capslock' = capslock
    BY <2>2, <2>3 DEF pressed, PrintScreen, Dec
  <2>5. keystroke' = keystroke
    BY <2>2, <2>3 DEF pressed, get_keycode_of, special_keycode, Coded, None
  <2>6. ShiftRight'
    BY <1>1, <1>2, <2>4, TypistRests DEF ShiftRight
  <2> QED BY <1>1, <2>2, <2>4, <2>5, <2>6, TypistRests, QuietIsDone
<1>3. CASE /\ "shift" \notin odd => ~ShiftHeld
           /\ Comes(<<170>>, 0, 0) \/ Comes(<<182>>, 0, 0)
  <2>1. PICK ch \in {42, 54} : Comes(<<ch + 128>>, 0, 0)
    BY <1>3
  <2>2. Decode(ch + 128) /\ codes' = <<>> /\ ignore = 0 /\ special = 0
    BY <2>1, NextOfCodes DEF Comes
  <2>3. released(ch) /\ special' = Dec(special)
    <3>1. ch \in 0 .. 127 /\ ch \notin {96, 97}
      OBVIOUS
    <3> QED BY <2>2, <3>1, ReleasesCode, Zenon
  <2>4. /\ ignore' = 0 /\ special' = 0 /\ alt' = alt /\ shift' = 0 /\ capslock' = capslock
        /\ keystroke' = keystroke
    BY <2>2, <2>3 DEF released, Dec
  <2>5. ShiftRight'
    BY <1>1, <1>3, <2>4, TypistRests DEF ShiftRight
  <2> QED BY <1>1, <2>2, <2>4, <2>5, TypistRests, QuietIsDone
<1> QED BY <1>2, <1>3 DEF ShiftComes

LEMMA CapsTurn ==
  ASSUME CapsComes, scan_code PROVE DecoderInv'
<1>1. /\ UNCHANGED <<down, wanted, odd>>
      /\ Quiet /\ ShiftRight /\ AltRight
  BY NextOfCodes DEF CapsComes
<1>2. CASE Comes(<<58>>, 0, 0) /\ capslock = 0 /\ "caps" \in down
  <2>1. Decode(58) /\ codes' = <<>> /\ ignore = 0 /\ special = 0
    BY <1>2, NextOfCodes DEF Comes
  <2>2. pressed(58) /\ special' = Dec(special)
    BY <2>1, PressesCode
  <2>3. ignore' = 0 /\ special' = 0 /\ alt' = alt /\ shift' = shift /\ capslock' = 1
    BY <1>2, <2>1, <2>2 DEF pressed, PrintScreen, Dec
  <2>4. keystroke' = keystroke
    BY <2>1, <2>2 DEF pressed, get_keycode_of, special_keycode, Coded, None
  <2>5. CapsRight'
    BY <1>1, <1>2, <2>3 DEF CapsRight
  <2> QED BY <1>1, <2>1, <2>3, <2>4, <2>5, TypistRests, QuietIsDone
<1>3. CASE Comes(<<186>>, 0, 0) /\ capslock = 1 /\ "caps" \notin down
  <2>1. Decode(58 + 128) /\ codes' = <<>> /\ ignore = 0 /\ special = 0
    BY <1>3, NextOfCodes DEF Comes
  <2>2. released(58) /\ special' = Dec(special)
    BY <2>1, ReleasesCode
  <2>3. /\ ignore' = 0 /\ special' = 0 /\ alt' = alt /\ shift' = shift /\ capslock' = 0
        /\ keystroke' = keystroke
    BY <1>3, <2>1, <2>2 DEF released, Dec
  <2>4. CapsRight'
    BY <1>1, <1>3, <2>3 DEF CapsRight
  <2> QED BY <1>1, <2>1, <2>3, <2>4, TypistRests, QuietIsDone
<1> QED BY <1>2, <1>3 DEF CapsComes

LEMMA AltTurn ==
  ASSUME AltComes, scan_code PROVE DecoderInv'
<1>1. /\ UNCHANGED <<down, wanted, odd>>
      /\ Quiet /\ CapsRight /\ ShiftRight
  BY NextOfCodes DEF AltComes
<1>2. CASE Comes(<<56>>, 0, 0) /\ "alt" \in odd
  <2>1. Decode(56) /\ codes' = <<>> /\ ignore = 0 /\ special = 0
    BY <1>2, NextOfCodes DEF Comes
  <2>2. pressed(56) /\ special' = Dec(special)
    BY <2>1, PressesCode
  <2>3. ignore' = 0 /\ special' = 0 /\ shift' = shift /\ capslock' = capslock
    BY <2>1, <2>2 DEF pressed, PrintScreen, Dec
  <2>4. keystroke' = keystroke
    BY <2>1, <2>2 DEF pressed, get_keycode_of, special_keycode, Coded, None
  <2>5. AltRight'
    BY <1>1, <1>2 DEF AltRight
  <2> QED BY <1>1, <2>1, <2>3, <2>4, <2>5, TypistRests, QuietIsDone
<1>3. CASE Comes(<<184>>, 0, 0) /\ AltRight
  <2>1. Decode(56 + 128) /\ codes' = <<>> /\ ignore = 0 /\ special = 0
    BY <1>3, NextOfCodes DEF Comes
  <2>2. released(56) /\ special' = Dec(special)
    BY <2>1, ReleasesCode
  <2>3. /\ ignore' = 0 /\ special' = 0 /\ alt' = alt /\ shift' = shift
        /\ capslock' = capslock /\ keystroke' = keystroke
    BY <2>1, <2>2 DEF released, Dec
  <2> QED BY <1>1, <1>3, <2>1, <2>3, TypistRests, QuietIsDone
<1>4. CASE Comes(<<168>>, 0, 0)
  <2>1. Decode(40 + 128) /\ codes' = <<>> /\ ignore = 0 /\ special = 0
    BY <1>4, NextOfCodes DEF Comes
  <2>2. released(40) /\ special' = Dec(special)
    BY <2>1, ReleasesCode
  <2>3. /\ ignore' = 0 /\ special' = 0 /\ alt' = 0 /\ shift' = shift
        /\ capslock' = capslock /\ keystroke' = keystroke
    BY <2>1, <2>2 DEF released, Dec
  <2>4. AltRight'
    BY <2>3 DEF AltRight
  <2> QED BY <1>1, <2>1, <2>3, <2>4, TypistRests, QuietIsDone
<1> QED BY <1>2, <1>3, <1>4 DEF AltComes

LEMMA NothingTurn ==
  ASSUME NothingComes, scan_code PROVE DecoderInv'
<1>1. /\ UNCHANGED <<down, wanted, odd>>
      /\ Quiet /\ CapsRight /\ ShiftRight /\ AltRight
  BY NextOfCodes DEF NothingComes
<1>2. ASSUME NEW s \in {0, 1}, Comes(<< 29 >>, 0, s) PROVE DecoderInv'
  <2>1. Decode(29) /\ codes' = <<>> /\ ignore = 0 /\ special = s
    BY <1>2, NextOfCodes DEF Comes
  <2>2. pressed(29) /\ special' = Dec(special)
    BY <2>1, PressesCode
  <2>3. /\ ignore' = 0 /\ special' = 0 /\ shift' = shift /\ capslock' = capslock
        /\ alt' = alt
    BY <2>1, <2>2 DEF pressed, PrintScreen, Dec
  <2>4. keystroke' = keystroke
    BY <2>1, <2>2 DEF pressed, get_keycode_of, special_keycode, Coded, None
  <2> QED BY <1>1, <2>1, <2>3, <2>4, TypistRests, QuietIsDone
<1>3. ASSUME NEW s \in {0, 1}, NEW c \in {28, 29, 30, 53, 71, 72},
             Comes(<<c + 128>>, 0, s)
      PROVE DecoderInv'
  <2>1. Decode(c + 128) /\ codes' = <<>> /\ ignore = 0 /\ special = s
    BY <1>3, NextOfCodes DEF Comes
  <2>2. released(c) /\ special' = Dec(special)
    <3>1. c \in 0 .. 127 /\ c \notin {96, 97}
      OBVIOUS
    <3> QED BY <2>1, <3>1, ReleasesCode, Zenon
  <2>3. /\ ignore' = 0 /\ special' = 0 /\ alt' = alt /\ shift' = shift
        /\ capslock' = capslock /\ keystroke' = keystroke
    BY <2>1, <2>2 DEF released, Dec
  <2> QED BY <1>1, <2>1, <2>3, TypistRests, QuietIsDone
<1>4. ASSUME NEW c \in {29, 156, 157, 181, 199, 200}, Comes(<<224, c>>, 0, 0)
      PROVE DecoderInv'
  <2>1. Decode(224) /\ codes' = <<c>> /\ ignore = 0
    BY <1>4, NextOfCodes DEF Comes
  <2>2. ignore' = 0 /\ special' = 1 /\ UNCHANGED Flags
    BY <2>1, BeginsSpecial
  <2>3. NothingComes'
    BY <1>1, <2>1, <2>2, TypistRests DEF NothingComes, Comes, Flags
  <2> QED BY <2>3 DEF DecoderInv
<1>5. ASSUME NEW s \in {0, 1}, NEW c \in {156, 157, 158, 181, 199, 200}, Comes(<<c>>, 0, s)
      PROVE DecoderInv'
  <2>1. c - 128 \in {28, 29, 30, 53, 71, 72} /\ (c - 128) + 128 = c
    OBVIOUS
  <2> QED BY <1>3, <1>5, <2>1
<1>6. CASE \E c \in {29, 156, 157, 158, 181, 199} : Comes(<<c>>, 0, 0)
  BY <1>2, <1>5, <1>6
<1>7. CASE \E c \in {29, 156, 157, 181, 199, 200} : Comes(<<c>>, 0, 1)
  BY <1>2, <1>5, <1>7
<1> QED BY <1>4, <1>6, <1>7 DEF NothingComes

LEMMA PauseTurn ==
  ASSUME PauseComes, scan_code PROVE DecoderInv'
<1>1. /\ UNCHANGED <<down, wanted, odd>>
      /\ Quiet /\ CapsRight /\ ShiftRight /\ AltRight
  BY NextOfCodes DEF PauseComes
<1>2. CASE Comes(<<225, 29, 69, 225, 157, 197>>, 0, 0)
  <2>1. Decode(225) /\ codes' = <<29, 69, 225, 157, 197>> /\ ignore = 0 /\ special = 0
    BY <1>2, NextOfCodes DEF Comes
  <2>2. ignore' = 5 /\ special' = 0 /\ UNCHANGED Flags
    BY <2>1, BeginsPause DEF Dec
  <2>3. PauseComes'
    BY <1>1, <2>1, <2>2, TypistRests DEF PauseComes, Comes, Flags
  <2> QED BY <2>3 DEF DecoderInv
<1>3. ASSUME NEW ch, Decode(ch), NEW n \in 2 .. 5, ignore = n, special = 0,
             codes' = IF n = 5 THEN <<69, 225, 157, 197>> ELSE IF n = 4 THEN <<225, 157, 197>>
                      ELSE IF n = 3 THEN <<157, 197>> ELSE << 197 >>
      PROVE DecoderInv'
  <2>1. ignore' = n - 1 /\ special' = 0 /\ UNCHANGED Flags
    BY <1>3, SkipsCode DEF Dec
  <2>2. PauseComes'
    BY <1>1, <1>3, <2>1, TypistRests DEF PauseComes, Comes, Flags
  <2> QED BY <2>2 DEF DecoderInv
<1>4. CASE Comes(<<29, 69, 225, 157, 197>>, 5, 0)
  BY <1>3, <1>4, NextOfCodes DEF Comes
<1>5. CASE Comes(<<69, 225, 157, 197>>, 4, 0)
  BY <1>3, <1>5, NextOfCodes DEF Comes
<1>6. CASE Comes(<<225, 157, 197>>, 3, 0)
  BY <1>3, <1>6, NextOfCodes DEF Comes
<1>7. CASE Comes(<<157, 197>>, 2, 0)
  BY <1>3, <1>7, NextOfCodes DEF Comes
<1>8. CASE Comes(<<197>>, 1, 0)
  <2>1. Decode(197) /\ codes' = <<>> /\ ignore = 1 /\ special = 0
    BY <1>8, NextOfCodes DEF Comes
  <2>2. ignore' = 0 /\ special' = 0 /\ UNCHANGED Flags
    BY <2>1, SkipsCode DEF Dec
  <2> QED BY <1>1, <2>1, <2>2, TypistRests, QuietIsDone DEF Flags
<1> QED BY <1>2, <1>4, <1>5, <1>6, <1>7, <1>8 DEF PauseComes

LEMMA PrintScreenPressed ==
  ASSUME PrintScreenComes, scan_code PROVE DecoderInv'
<1>1. /\ UNCHANGED <<down, wanted, odd>>
      /\ "printscreen" \in down /\ keystroke = None /\ wanted = None
      /\ CapsRight /\ ShiftRight /\ AltRight
  BY NextOfCodes DEF PrintScreenComes
<1>2. CASE Comes(<<224, 42, 224, 55>>, 0, 0)
  <2>1. Decode(224) /\ codes' = <<42, 224, 55>> /\ ignore = 0
    BY <1>2, NextOfCodes DEF Comes
  <2>2. ignore' = 0 /\ special' = 1 /\ UNCHANGED Flags
    BY <2>1, BeginsSpecial
  <2>3. PrintScreenComes'
    BY <1>1, <2>1, <2>2, TypistRests DEF PrintScreenComes, Comes, Flags
  <2> QED BY <2>3 DEF DecoderInv
<1>3. CASE Comes(<<42, 224, 55>>, 0, 1)
  <2>1. Decode(42) /\ codes' = <<224, 55>> /\ ignore = 0 /\ special = 1
    BY <1>3, NextOfCodes DEF Comes
  <2>2. pressed(42) /\ special' = Dec(special)
    BY <2>1, PressesCode
  <2>3. /\ ignore' = 3 /\ special' = 0 /\ alt' = alt /\ shift' = shift /\ capslock' = capslock
    BY <2>1, <2>2 DEF pressed, PrintScreen, Dec
  <2>4. keystroke' = keystroke
    BY <2>1, <2>2 DEF pressed, get_keycode_of, special_keycode, None
  <2>5. PrintScreenComes'
    BY <1>1, <2>1, <2>3, <2>4, TypistRests DEF PrintScreenComes, Comes
  <2> QED BY <2>5 DEF DecoderInv
<1>4. CASE Comes(<<224, 55>>, 3, 0)
  <2>1. Decode(224) /\ codes' = <<55>> /\ ignore = 3 /\ special = 0
    BY <1>4, NextOfCodes DEF Comes
  <2>2. ignore' = 2 /\ special' = 0 /\ UNCHANGED Flags
    BY <2>1, SkipsCode DEF Dec
  <2>3. PrintScreenComes'
    BY <1>1, <2>1, <2>2, TypistRests DEF PrintScreenComes, Comes, Flags
  <2> QED BY <2>3 DEF DecoderInv
<1>5. CASE Comes(<<55>>, 2, 0)
  <2>1. Decode(55) /\ codes' = <<>> /\ ignore = 2 /\ special = 0
    BY <1>5, NextOfCodes DEF Comes
  <2>2. ignore' = 1 /\ special' = 0 /\ UNCHANGED Flags
    BY <2>1, SkipsCode DEF Dec
  <2>3. KeyIsDone'
    BY <1>1, <2>1, <2>2, TypistRests DEF KeyIsDone, Comes, Flags
  <2> QED BY <2>3 DEF DecoderInv
<1> QED BY <1>2, <1>3, <1>4, <1>5 DEF PrintScreenComes

LEMMA PrintScreenReleased ==
  ASSUME PrintScreenGoes, scan_code PROVE DecoderInv'
<1>1. /\ UNCHANGED <<down, wanted, odd>>
      /\ Quiet /\ CapsRight /\ ShiftRight /\ AltRight
      /\ "shift" \notin odd => ~ShiftHeld
  BY NextOfCodes DEF PrintScreenGoes
<1>2. CASE Comes(<<224, 183, 224, 170>>, 1, 0)
  <2>1. Decode(224) /\ codes' = <<183, 224, 170>> /\ ignore = 1 /\ special = 0
    BY <1>2, NextOfCodes DEF Comes
  <2>2. ignore' = 0 /\ special' = 0 /\ UNCHANGED Flags
    BY <2>1, SkipsCode DEF Dec
  <2>3. PrintScreenGoes'
    BY <1>1, <2>1, <2>2, TypistRests DEF PrintScreenGoes, Comes, Flags
  <2> QED BY <2>3 DEF DecoderInv
<1>3. CASE Comes(<<183, 224, 170>>, 0, 0)
  <2>1. Decode(55 + 128) /\ codes' = <<224, 170>> /\ ignore = 0 /\ special = 0
    BY <1>3, NextOfCodes DEF Comes
  <2>2. released(55) /\ special' = Dec(special)
    BY <2>1, ReleasesCode
  <2>3. /\ ignore' = 0 /\ special' = 0 /\ alt' = alt /\ shift' = shift
        /\ capslock' = capslock /\ keystroke' = keystroke
    BY <2>1, <2>2 DEF released, Dec
  <2>4. PrintScreenGoes'
    BY <1>1, <2>1, <2>3, TypistRests DEF PrintScreenGoes, Comes
  <2> QED BY <2>4 DEF DecoderInv
<1>4. CASE Comes(<<224, 170>>, 0, 0)
  <2>1. Decode(224) /\ codes' = <<170>> /\ ignore = 0
    BY <1>4, NextOfCodes DEF Comes
  <2>2. ignore' = 0 /\ special' = 1 /\ UNCHANGED Flags
    BY <2>1, BeginsSpecial
  <2>3. PrintScreenGoes'
    BY <1>1, <2>1, <2>2, TypistRests DEF PrintScreenGoes, Comes, Flags
  <2> QED BY <2>3 DEF DecoderInv
<1>5. CASE Comes(<<170>>, 0, 1)
  <2>1. Decode(42 + 128) /\ codes' = <<>> /\ ignore = 0 /\ special = 1
    BY <1>5, NextOfCodes DEF Comes
  <2>2. released(42) /\ special' = Dec(special)
    BY <2>1, ReleasesCode
  <2>3. /\ ignore' = 0 /\ special' = 0 /\ alt' = alt /\ shift' = 0
        /\ capslock' = capslock /\ keystroke' = keystroke
    BY <2>1, <2>2 DEF released, Dec
  <2>4. ShiftRight'
    BY <1>1, <2>3, TypistRests DEF ShiftRight
  <2> QED BY <1>1, <2>1, <2>3, <2>4, TypistRests, QuietIsDone
<1> QED BY <1>2, <1>3, <1>4, <1>5 DEF PrintScreenGoes

(* The typist. *)
LEMMA NamesOfKeys ==
  /\ DOMAIN make = {"a", "quote", "slash", "enter", "kp7", "kpslash", "kpenter", "up", "home",
                    "lshift", "rshift", "lctrl", "rctrl", "alt", "caps", "printscreen", "pause"}
  /\ make["a"] = <<30>> /\ make["quote"] = <<40>> /\ make["slash"] = <<53>>
  /\ make["enter"] = <<28>> /\ make["kp7"] = <<71>> /\ make["kpslash"] = <<224, 53>>
  /\ make["kpenter"] = <<224, 28>> /\ make["up"] = <<224, 72>> /\ make["home"] = <<224, 71>>
  /\ make["lshift"] = <<42>> /\ make["rshift"] = <<54>> /\ make["lctrl"] = <<29>>
  /\ make["rctrl"] = <<224, 29>> /\ make["alt"] = <<56>> /\ make["caps"] = <<58>>
  /\ make["printscreen"] = <<224, 42, 224, 55>>
  /\ make["pause"] = <<225, 29, 69, 225, 157, 197>>
BY DEF make

LEMMA CodesOfReleases ==
  /\ break["a"] = <<158>> /\ break["quote"] = <<168>> /\ break["slash"] = <<181>>
  /\ break["enter"] = <<156>> /\ break["kp7"] = <<199>> /\ break["kpslash"] = <<224, 181>>
  /\ break["kpenter"] = <<224, 156>> /\ break["up"] = <<224, 200>> /\ break["home"] = <<224, 199>>
  /\ break["lshift"] = <<170>> /\ break["rshift"] = <<182>> /\ break["lctrl"] = <<157>>
  /\ break["rctrl"] = <<224, 157>> /\ break["alt"] = <<184>> /\ break["caps"] = <<186>>
  /\ break["printscreen"] = <<224, 183, 224, 170>>
<1>1. ASSUME NEW k \in DOMAIN make, k \notin {"pause", "printscreen"}
      PROVE break[k] = [make[k] EXCEPT ![Len(make[k])] = @ + 128]
  BY <1>1 DEF break
<1>2. ASSUME NEW k \in DOMAIN make, k \notin {"pause", "printscreen"},
             NEW c \in Nat, make[k] = <<c>>
      PROVE break[k] = <<c + 128>>
  <2>1. PICK q : q = make[k]
    OBVIOUS
  <2>2. q = <<c>> /\ Len(q) = 1 /\ q[1] = c
    BY <1>2, <2>1
  <2>3. [q EXCEPT ![1] = c + 128] = <<c + 128>>
    BY ONLY <1>2, <2>2
  <2>4. break[k] = [q EXCEPT ![Len(q)] = q[Len(q)] + 128]
    BY <1>1, <1>2, <2>1
  <2> QED BY <2>2, <2>3, <2>4, Zenon
<1>3. ASSUME NEW k \in DOMAIN make, k \notin {"pause", "printscreen"},
             NEW c \in Nat, make[k] = <<224, c>>
      PROVE break[k] = <<224, c + 128>>
  <2>1. PICK q : q = make[k]
    OBVIOUS
  <2>2. q = <<224, c>> /\ Len(q) = 2 /\ q[2] = c
    BY <1>3, <2>1
  <2>3. [q EXCEPT ![2] = c + 128] = <<224, c + 128>>
    BY ONLY <1>3, <2>2
  <2>4. break[k] = [q EXCEPT ![Len(q)] = q[Len(q)] + 128]
    BY <1>1, <1>3, <2>1
  <2> QED BY <2>2, <2>3, <2>4, Zenon
<1>4. break["printscreen"] = <<224, 183, 224, 170>>
  BY NamesOfKeys DEF break
<1> QED BY <1>2, <1>3, <1>4, NamesOfKeys

LEMMA KeyPressed ==
  ASSUME KeyIsDone, NEW k \in DOMAIN make, press(k) PROVE DecoderInv'
<1>1. /\ codes' = make[k] /\ down' = (IF k = "pause" THEN down ELSE down \cup {k})
      /\ wanted' = Wanted(k) /\ keystroke' = None
      /\ UNCHANGED <<ignore, special, shift, control, alt, capslock>>
      /\ odd' = (odd \ ((IF k \in Shifts THEN {"shift"} ELSE {}) \cup {"table"}))
                  \cup (Ignored \cup ({k} \cap ({"alt"} \cup ({"caps", "printscreen"} \cap down)))
                         \cup (IF Mistabled(k) THEN {"table"} ELSE {}))
  BY DEF press, Odd
<1>2. CASE ignore # 0
  <2>1. "ignored" \in odd'
    BY <1>1, <1>2 DEF Ignored
  <2> QED BY <2>1 DEF DecoderInv, Misled
<1>3. CASE ignore = 0
  <2>1. /\ "printscreen" \notin down /\ special' = 0 /\ ignore' = 0
        /\ CapsRight /\ ShiftRight /\ AltRight
    BY <1>1, <1>3 DEF KeyIsDone, Comes
  <2>2. AltRight'
    BY <1>1, <2>1 DEF AltRight, Shifts
  <2>3. k # "caps" => CapsRight'
    BY <1>1, <2>1 DEF CapsRight
  <2>4. k \notin Shifts => ShiftRight'
    <3> SUFFICES ASSUME k \notin Shifts PROVE ShiftRight'
      OBVIOUS
    <3>1. ShiftHeld' <=> ShiftHeld
      BY <1>1 DEF ShiftHeld
    <3>2. "shift" \in odd => "shift" \in odd'
      BY <1>1
    <3> QED BY <1>1, <2>1, <3>1, <3>2 DEF ShiftRight
  <2>5. k # "printscreen" => "printscreen" \notin down'
    BY <1>1, <2>1
  <2>6. k \in Shifts \cup {"caps", "alt", "lctrl", "rctrl", "pause", "printscreen"} =>
          wanted' = None
    BY <1>1 DEF Wanted, Shifts
  <2>7. CASE k \in DOMAIN CodeOf \cup DOMAIN SpecialCode
    <3>1. CapsRight' /\ ShiftRight' /\ AltRight' /\ "printscreen" \notin down'
      BY <2>2, <2>3, <2>4, <2>5, <2>7, CodesOfCharacters DEF Shifts
    <3>2. (Shifted' <=> Shifted) /\ (Caps' <=> Caps)
      BY <1>1, <2>7, CodesOfCharacters DEF Shifts, Shifted, Caps
    <3>3. wanted' = Wanted(k)' /\ (Mistabled(k)' => odd' # {})
      BY <1>1, <3>2 DEF Wanted, Mistabled
    <3>4. \/ k \in DOMAIN CodeOf /\ codes' = <<CodeOf[k]>>
          \/ k \in DOMAIN SpecialCode /\ codes' = <<224, SpecialCode[k]>>
      BY <1>1, <2>7, CodesOfCharacters, NamesOfKeys
    <3>5. CharacterComes'
      BY <1>1, <2>1, <3>1, <3>3, <3>4 DEF CharacterComes, Comes
    <3> QED BY <3>5 DEF DecoderInv
  <2>8. CASE k \in Shifts
    <3>1. ShiftHeld' /\ CapsRight' /\ Quiet'
      BY <1>1, <2>3, <2>5, <2>6, <2>8 DEF Shifts, ShiftHeld, Quiet
    <3>2. ShiftComes'
      BY <1>1, <2>1, <2>2, <2>8, <3>1, NamesOfKeys DEF ShiftComes, Comes, Shifts
    <3> QED BY <3>2 DEF DecoderInv
  <2>9. CASE k = "caps"
    <3>1. CASE "caps" \in down
      <4>1. "caps" \in odd'
        BY <1>1, <2>9, <3>1
      <4> QED BY <4>1 DEF DecoderInv, Misled
    <3>2. CASE "caps" \notin down
      <4>1. capslock' = 0 /\ "caps" \in down' /\ Quiet' /\ ShiftRight'
        BY <1>1, <2>1, <2>4, <2>5, <2>6, <2>9, <3>2 DEF CapsRight, Quiet, Shifts
      <4>2. CapsComes'
        BY <1>1, <2>1, <2>2, <2>9, <4>1, NamesOfKeys DEF CapsComes, Comes
      <4> QED BY <4>2 DEF DecoderInv
    <3> QED BY <3>1, <3>2
  <2>10. CASE k = "alt"
    <3>1. "alt" \in odd' /\ Quiet' /\ ShiftRight' /\ CapsRight'
      BY <1>1, <2>3, <2>4, <2>5, <2>6, <2>10 DEF Quiet, Shifts
    <3>2. AltComes'
      BY <1>1, <2>1, <2>10, <3>1, NamesOfKeys DEF AltComes, Comes
    <3> QED BY <3>2 DEF DecoderInv
  <2>11. CASE k \in {"lctrl", "rctrl", "pause"}
    <3>1. Quiet' /\ ShiftRight' /\ CapsRight'
      BY <1>1, <2>3, <2>4, <2>5, <2>6, <2>11 DEF Quiet, Shifts
    <3>2. NothingComes' \/ PauseComes'
      BY <1>1, <2>1, <2>2, <2>11, <3>1, NamesOfKeys DEF NothingComes, PauseComes, Comes
    <3> QED BY <3>2 DEF DecoderInv
  <2>12. CASE k = "printscreen"
    <3>1. "printscreen" \in down' /\ ShiftRight' /\ CapsRight'
      BY <1>1, <2>3, <2>4, <2>12 DEF Shifts
    <3>2. PrintScreenComes'
      BY <1>1, <2>1, <2>2, <2>6, <2>12, <3>1, NamesOfKeys DEF PrintScreenComes, Comes
    <3> QED BY <3>2 DEF DecoderInv
  <2> QED BY <2>7, <2>8, <2>9, <2>10, <2>11, <2>12, NamesOfKeys, CodesOfCharacters DEF Shifts
<1> QED BY <1>2, <1>3

LEMMA KeyReleased ==
  ASSUME KeyIsDone, NEW k \in DOMAIN make, k # "pause", release(k) PROVE DecoderInv'
<1>1. /\ codes' = break[k] /\ down' = down \ {k} /\ k \in down
      /\ wanted' = None /\ keystroke' = None
      /\ UNCHANGED <<ignore, special, shift, control, alt, capslock>>
      /\ odd' = (odd \ ((IF k = "quote" THEN {"alt"} ELSE {}) \cup {"table"}))
                  \cup ((IF k \in Shifts \cup {"printscreen"} /\ ShiftHeld' THEN {"shift"} ELSE {})
                        \cup (IF k = "printscreen" THEN {} ELSE Ignored))
  BY DEF release, Odd, ShiftHeld
<1>2. /\ special' = 0 /\ CapsRight /\ ShiftRight /\ AltRight
      /\ ignore = (IF "printscreen" \in down THEN 1 ELSE 0)
  BY <1>1 DEF KeyIsDone, Comes
<1>3. k # "quote" => AltRight'
  BY <1>1, <1>2 DEF AltRight
<1>4. k # "caps" => CapsRight'
  BY <1>1, <1>2 DEF CapsRight
<1>5. k \notin Shifts => ShiftRight'
  <2> SUFFICES ASSUME k \notin Shifts PROVE ShiftRight'
    OBVIOUS
  <2>1. ShiftHeld' <=> ShiftHeld
    BY <1>1 DEF ShiftHeld
  <2>2. "shift" \in odd => "shift" \in odd'
    BY <1>1
  <2> QED BY <1>1, <1>2, <2>1, <2>2 DEF ShiftRight
<1>6. k \in Shifts \cup {"printscreen"} => ("shift" \notin odd' => ~ShiftHeld')
  BY <1>1
<1>7. CASE k = "printscreen"
  <2>1. ignore' = 1 /\ Quiet' /\ CapsRight' /\ ShiftRight' /\ AltRight'
    BY <1>1, <1>2, <1>3, <1>4, <1>5, <1>7 DEF Quiet, Shifts
  <2>2. PrintScreenGoes'
    BY <1>1, <1>2, <1>6, <1>7, <2>1, CodesOfReleases DEF PrintScreenGoes, Comes
  <2> QED BY <2>2 DEF DecoderInv
<1>8. CASE k # "printscreen" /\ "printscreen" \in down
  <2>1. "ignored" \in odd'
    BY <1>1, <1>2, <1>8 DEF Ignored
  <2> QED BY <2>1 DEF DecoderInv, Misled
<1>9. CASE k # "printscreen" /\ "printscreen" \notin down
  <2>1. ignore' = 0 /\ Quiet'
    BY <1>1, <1>2, <1>9 DEF Quiet
  <2>2. CASE k \in Shifts
    <3>1. CapsRight' /\ AltRight'
      BY <1>3, <1>4, <2>2 DEF Shifts
    <3>2. ShiftComes'
      BY <1>1, <1>2, <1>6, <2>1, <2>2, <3>1, CodesOfReleases DEF ShiftComes, Comes, Shifts
    <3> QED BY <3>2 DEF DecoderInv
  <2>3. CASE k = "caps"
    <3>1. capslock' = 1 /\ "caps" \notin down' /\ ShiftRight' /\ AltRight'
      BY <1>1, <1>2, <1>3, <1>5, <2>3 DEF CapsRight, Shifts
    <3>2. CapsComes'
      BY <1>1, <1>2, <2>1, <2>3, <3>1, CodesOfReleases DEF CapsComes, Comes
    <3> QED BY <3>2 DEF DecoderInv
  <2>4. CASE k \in {"alt", "quote"}
    <3>1. CapsRight' /\ ShiftRight' /\ (k = "alt" => AltRight')
      BY <1>3, <1>4, <1>5, <2>4 DEF Shifts
    <3>2. AltComes'
      BY <1>1, <1>2, <2>1, <2>4, <3>1, CodesOfReleases DEF AltComes, Comes
    <3> QED BY <3>2 DEF DecoderInv
  <2>5. CASE k \in {"a", "slash", "enter", "kp7", "kpslash", "kpenter", "up", "home",
                   "lctrl", "rctrl"}
    <3>1. CapsRight' /\ ShiftRight' /\ AltRight'
      BY <1>3, <1>4, <1>5, <2>5 DEF Shifts
    <3>2. NothingComes'
      BY <1>1, <1>2, <2>1, <2>5, <3>1, CodesOfReleases DEF NothingComes, Comes
    <3> QED BY <3>2 DEF DecoderInv
  <2> QED BY <1>9, <2>2, <2>3, <2>4, <2>5, NamesOfKeys DEF Shifts
<1> QED BY <1>7, <1>8, <1>9

(* What is lost stays lost: only the effect of Shift and of Alt comes      *)
(* right again.                                                            *)
LEMMA StaysLost ==
  ASSUME Misled, DecoderNext PROVE Misled'
<1>1. CASE scan_code
  BY <1>1 DEF scan_code, typistVars, Misled
<1>2. ASSUME NEW k \in DOMAIN make, press(k) PROVE Misled'
  <2>1. \A what \in odd : what \notin {"shift", "table"} => what \in odd'
    BY <1>2 DEF press, Odd
  <2> QED BY <2>1 DEF Misled
<1>3. ASSUME NEW k \in down, release(k) PROVE Misled'
  <2>1. \A what \in odd : what \notin {"alt", "table"} => what \in odd'
    BY <1>3 DEF release, Odd
  <2> QED BY <2>1 DEF Misled
<1> QED BY <1>1, <1>2, <1>3 DEF DecoderNext

(* The keys that are held are keys, and Pause is never held. *)
HeldAreKeys == down \subseteq DOMAIN make \ {"pause"}

(* keyb.c: whatever keys a typist holds with it, each key gives the        *)
(* keystroke it should, once, until something happens that the code does   *)
(* not cope with.                                                          *)
THEOREM KeysStayTyped == DecoderSpec => []KeysAreTyped
<1>1. DecoderInit => DecoderInv /\ HeldAreKeys
  BY DEF DecoderInit, DecoderInv, HeldAreKeys, KeyIsDone, Comes, CapsRight, ShiftRight,
         AltRight, ShiftHeld
<1>2. DecoderInv /\ HeldAreKeys /\ [DecoderNext]_<<decoderVars, codes, typistVars>>
        => DecoderInv' /\ HeldAreKeys'
  <2> SUFFICES ASSUME DecoderInv, HeldAreKeys,
                      [DecoderNext]_<<decoderVars, codes, typistVars>>
               PROVE  DecoderInv' /\ HeldAreKeys'
    OBVIOUS
  <2>1. CASE scan_code
    <3>1. HeldAreKeys'
      BY <2>1 DEF scan_code, typistVars, HeldAreKeys
    <3>2. ~KeyIsDone
      BY <2>1 DEF scan_code, KeyIsDone, Comes
    <3>3. Misled => DecoderInv'
      BY <2>1, StaysLost DEF DecoderNext, DecoderInv
    <3> QED BY <2>1, <3>1, <3>2, <3>3, CharacterTurn, ShiftTurn, CapsTurn, AltTurn, NothingTurn,
               PauseTurn, PrintScreenPressed, PrintScreenReleased DEF DecoderInv
  <2>2. codes = <<>> => Misled \/ KeyIsDone
    BY DEF DecoderInv, CharacterComes, ShiftComes, CapsComes, AltComes, NothingComes,
           PauseComes, PrintScreenComes, PrintScreenGoes, Comes
  <2>3. ASSUME NEW k \in DOMAIN make, press(k) PROVE DecoderInv' /\ HeldAreKeys'
    <3>1. HeldAreKeys'
      BY <2>3 DEF press, HeldAreKeys
    <3>2. Misled \/ KeyIsDone
      BY <2>2, <2>3 DEF press
    <3>3. Misled => DecoderInv'
      BY <2>3, StaysLost DEF DecoderNext, DecoderInv
    <3> QED BY <2>3, <3>1, <3>2, <3>3, KeyPressed
  <2>4. ASSUME NEW k \in down, release(k) PROVE DecoderInv' /\ HeldAreKeys'
    <3>1. HeldAreKeys'
      BY <2>4 DEF release, HeldAreKeys
    <3>2. Misled \/ KeyIsDone
      BY <2>2, <2>4 DEF release
    <3>3. Misled => DecoderInv'
      BY <2>4, StaysLost DEF DecoderNext, DecoderInv
    <3>4. k \in DOMAIN make /\ k # "pause"
      BY DEF HeldAreKeys
    <3> QED BY <2>4, <3>1, <3>2, <3>3, <3>4, KeyReleased
  <2>5. CASE UNCHANGED <<decoderVars, codes, typistVars>>
    BY <2>5 DEF decoderVars, typistVars, DecoderInv, HeldAreKeys, Misled, KeyIsDone, CharacterComes,
                ShiftComes, CapsComes, AltComes, NothingComes, PauseComes, PrintScreenComes,
                PrintScreenGoes, Comes, CapsRight, ShiftRight, AltRight, ShiftHeld, Quiet, Wanted, Mistabled,
                Shifted, Caps
  <2> QED BY <2>1, <2>3, <2>4, <2>5 DEF DecoderNext
<1>3. DecoderInv => KeysAreTyped
  BY DEF DecoderInv, KeysAreTyped, Misled, KeyIsDone, CharacterComes, ShiftComes, CapsComes,
         AltComes, NothingComes, PauseComes, PrintScreenComes, PrintScreenGoes, Comes
<1> QED BY <1>1, <1>2, <1>3, PTL DEF DecoderSpec

-----------------------------------------------------------------------------
(***************************************************************************)
(* The train program                                                       *)
(*                                                                         *)
(* First the order of the commands, for any timing.  A script is in order  *)
(* for a train that has the speed v if there are speeds, one before each   *)
(* command and one after the last, such that each command makes the next   *)
(* of them, the train is turned at speed 0 only, polled at the speed       *)
(* `least' at least, and has the speed 0 in the end.                       *)
(***************************************************************************)

(* What init_train_track and the scripts are made of. *)
Commands == [op : {"M"}, n : 1 .. 9, to : {"G", "R"}] \cup [op : {"S"}, n : 0 .. 5]
              \cup [op : {"D"}] \cup [op : {"C"}, n : 1 .. 16]

(* The speed after the command c, if it was v. *)
SpeedAfter(v, c) == IF c.op = "S" THEN c.n ELSE v

(* c may be sent at the speed u, and the speed is w then. *)
Follows(c, u, w, least) ==
  /\ w = SpeedAfter(u, c)
  /\ c.op = "D" => u = 0
  /\ c.op = "C" => u >= least

InOrder(q, v, least) ==
  \E t \in [1 .. Len(q) + 1 -> 0 .. 5] :
    /\ t[1] = v /\ t[Len(q) + 1] = 0
    /\ \A i \in 1 .. Len(q) : Follows(q[i], t[i], t[i + 1], least)

(* The constructors of Track make such commands. *)
LEMMA CommandsAre ==
  /\ \A n \in 1 .. 9 : M(n, "G") \in Commands /\ M(n, "R") \in Commands
  /\ \A v \in 0 .. 5 : L(v) \in Commands
  /\ \A n \in 1 .. 16 : C(n) \in Commands
  /\ D \in Commands
BY DEF Commands, M, L, C, D

(* When each of them follows. *)
LEMMA Follow ==
  ASSUME NEW u \in 0 .. 5, NEW least \in 0 .. 1
  PROVE  /\ \A n, to : Follows(M(n, to), u, u, least)
         /\ \A v : Follows(L(v), u, v, least)
         /\ u = 0 => Follows(D, u, u, least)
         /\ u >= least => \A n : Follows(C(n), u, u, least)
BY DEF Follows, SpeedAfter, M, L, C, D

(* The switches are set while the train stands; then each script, with the  *)
(* speeds that show that it is in order.                                    *)
LEMMA InitTrainTrackInOrder ==
  init_train_track \in Seq(Commands) /\ InOrder(init_train_track, 0, 1)
<1> DEFINE t == <<0, 0, 0, 0, 0, 0>>
<1>1. init_train_track \in Seq(Commands) /\ Len(init_train_track) = 5 /\ 5 + 1 = 6
  BY CommandsAre DEF init_train_track
<1>2. t \in [1 .. 6 -> 0 .. 5] /\ t[1] = 0 /\ t[6] = 0
  OBVIOUS
<1>3. ASSUME NEW i \in 1 .. 5
      PROVE  Follows(init_train_track[i], t[i], t[i + 1], 1)
  <2>1. i \in {1, 2, 3, 4, 5}
    OBVIOUS
  <2> QED  BY <2>1, Follow DEF init_train_track
<1> HIDE DEF t
<1> QED  BY <1>1, <1>2, <1>3 DEF InOrder

LEMMA Config1InOrder ==
  run_config_1 \in Seq(Commands) /\ InOrder(run_config_1, 0, 1)
<1> DEFINE t == <<0, 0, 0, 0, 0, 5, 5, 0, 0, 5, 5, 3, 3, 0>>
<1>1. run_config_1 \in Seq(Commands) /\ Len(run_config_1) = 13 /\ 13 + 1 = 14
  BY CommandsAre DEF run_config_1
<1>2. t \in [1 .. 14 -> 0 .. 5] /\ t[1] = 0 /\ t[14] = 0
  OBVIOUS
<1>3. ASSUME NEW i \in 1 .. 13
      PROVE  Follows(run_config_1[i], t[i], t[i + 1], 1)
  <2>1. i \in {1, 2, 3, 4, 5, 6, 7, 8, 9, 10, 11, 12, 13}
    OBVIOUS
  <2> QED  BY <2>1, Follow DEF run_config_1
<1> HIDE DEF t
<1> QED  BY <1>1, <1>2, <1>3 DEF InOrder

LEMMA Config1ZamboniInOrder ==
  run_config_1_zamboni \in Seq(Commands) /\ InOrder(run_config_1_zamboni, 0, 0)
<1> DEFINE t == <<0, 0, 5, 5, 5, 5, 5, 0, 0, 0, 5, 5, 5, 5, 3, 3, 0>>
<1>1. run_config_1_zamboni \in Seq(Commands) /\ Len(run_config_1_zamboni) = 16 /\ 16 + 1 = 17
  BY CommandsAre DEF run_config_1_zamboni
<1>2. t \in [1 .. 17 -> 0 .. 5] /\ t[1] = 0 /\ t[17] = 0
  OBVIOUS
<1>3. ASSUME NEW i \in 1 .. 16
      PROVE  Follows(run_config_1_zamboni[i], t[i], t[i + 1], 0)
  <2>1. i \in {1, 2, 3, 4, 5, 6, 7, 8, 9, 10, 11, 12, 13, 14, 15, 16}
    OBVIOUS
  <2> QED  BY <2>1, Follow DEF run_config_1_zamboni
<1> HIDE DEF t
<1> QED  BY <1>1, <1>2, <1>3 DEF InOrder

LEMMA Config2InOrder ==
  run_config_2 \in Seq(Commands) /\ InOrder(run_config_2, 0, 1)
<1> DEFINE t == <<0, 0, 0, 5, 5, 0, 0, 5, 5, 5, 3, 3, 0>>
<1>1. run_config_2 \in Seq(Commands) /\ Len(run_config_2) = 12 /\ 12 + 1 = 13
  BY CommandsAre DEF run_config_2
<1>2. t \in [1 .. 13 -> 0 .. 5] /\ t[1] = 0 /\ t[13] = 0
  OBVIOUS
<1>3. ASSUME NEW i \in 1 .. 12
      PROVE  Follows(run_config_2[i], t[i], t[i + 1], 1)
  <2>1. i \in {1, 2, 3, 4, 5, 6, 7, 8, 9, 10, 11, 12}
    OBVIOUS
  <2> QED  BY <2>1, Follow DEF run_config_2
<1> HIDE DEF t
<1> QED  BY <1>1, <1>2, <1>3 DEF InOrder

LEMMA Config2ZamboniInOrder ==
  run_config_2_zamboni \in Seq(Commands) /\ InOrder(run_config_2_zamboni, 0, 0)
<1> DEFINE t == <<0, 0, 5, 5, 0, 0, 5, 5, 5, 5, 5, 0, 0, 5, 3, 0, 0, 0, 5, 5,
                  5, 5, 2, 2, 0, 0>>
<1>1. run_config_2_zamboni \in Seq(Commands) /\ Len(run_config_2_zamboni) = 25 /\ 25 + 1 = 26
  BY CommandsAre DEF run_config_2_zamboni
<1>2. t \in [1 .. 26 -> 0 .. 5] /\ t[1] = 0 /\ t[26] = 0
  OBVIOUS
<1>3. ASSUME NEW i \in 1 .. 25
      PROVE  Follows(run_config_2_zamboni[i], t[i], t[i + 1], 0)
  <2>1. i \in {1, 2, 3, 4, 5, 6, 7, 8, 9, 10, 11, 12, 13, 14, 15, 16, 17, 18,
        19, 20, 21, 22, 23, 24, 25}
    OBVIOUS
  <2> QED  BY <2>1, Follow DEF run_config_2_zamboni
<1> HIDE DEF t
<1> QED  BY <1>1, <1>2, <1>3 DEF InOrder

LEMMA Config3InOrder ==
  run_config_3 \in Seq(Commands) /\ InOrder(run_config_3, 0, 1)
<1> DEFINE t == <<0, 5, 5, 5, 5, 0, 0, 5, 5, 5, 0, 0, 3, 3, 0>>
<1>1. run_config_3 \in Seq(Commands) /\ Len(run_config_3) = 14 /\ 14 + 1 = 15
  BY CommandsAre DEF run_config_3
<1>2. t \in [1 .. 15 -> 0 .. 5] /\ t[1] = 0 /\ t[15] = 0
  OBVIOUS
<1>3. ASSUME NEW i \in 1 .. 14
      PROVE  Follows(run_config_3[i], t[i], t[i + 1], 1)
  <2>1. i \in {1, 2, 3, 4, 5, 6, 7, 8, 9, 10, 11, 12, 13, 14}
    OBVIOUS
  <2> QED  BY <2>1, Follow DEF run_config_3
<1> HIDE DEF t
<1> QED  BY <1>1, <1>2, <1>3 DEF InOrder

LEMMA Config3ZamboniInOrder ==
  run_config_3_zamboni \in Seq(Commands) /\ InOrder(run_config_3_zamboni, 0, 0)
<1> DEFINE t == <<0, 0, 5, 5, 5, 5, 5, 0, 0, 5, 5, 0, 0, 5, 5, 5, 0, 0, 3, 3,
                  0>>
<1>1. run_config_3_zamboni \in Seq(Commands) /\ Len(run_config_3_zamboni) = 20 /\ 20 + 1 = 21
  BY CommandsAre DEF run_config_3_zamboni
<1>2. t \in [1 .. 21 -> 0 .. 5] /\ t[1] = 0 /\ t[21] = 0
  OBVIOUS
<1>3. ASSUME NEW i \in 1 .. 20
      PROVE  Follows(run_config_3_zamboni[i], t[i], t[i + 1], 0)
  <2>1. i \in {1, 2, 3, 4, 5, 6, 7, 8, 9, 10, 11, 12, 13, 14, 15, 16, 17, 18,
        19, 20}
    OBVIOUS
  <2> QED  BY <2>1, Follow DEF run_config_3_zamboni
<1> HIDE DEF t
<1> QED  BY <1>1, <1>2, <1>3 DEF InOrder

LEMMA Config4InOrder ==
  run_config_4 \in Seq(Commands) /\ InOrder(run_config_4, 0, 1)
<1> DEFINE t == <<0, 5, 5, 5, 5, 0, 0, 0, 5, 5, 0, 0, 5, 5, 5, 5, 0>>
<1>1. run_config_4 \in Seq(Commands) /\ Len(run_config_4) = 16 /\ 16 + 1 = 17
  BY CommandsAre DEF run_config_4
<1>2. t \in [1 .. 17 -> 0 .. 5] /\ t[1] = 0 /\ t[17] = 0
  OBVIOUS
<1>3. ASSUME NEW i \in 1 .. 16
      PROVE  Follows(run_config_4[i], t[i], t[i + 1], 1)
  <2>1. i \in {1, 2, 3, 4, 5, 6, 7, 8, 9, 10, 11, 12, 13, 14, 15, 16}
    OBVIOUS
  <2> QED  BY <2>1, Follow DEF run_config_4
<1> HIDE DEF t
<1> QED  BY <1>1, <1>2, <1>3 DEF InOrder

LEMMA Config4ZamboniInOrder ==
  run_config_4_zamboni \in Seq(Commands) /\ InOrder(run_config_4_zamboni, 0, 0)
<1> DEFINE t == <<0, 0, 5, 5, 5, 5, 5, 0, 0, 0, 0, 5, 5, 5, 5, 5, 0, 0, 5, 0>>
<1>1. run_config_4_zamboni \in Seq(Commands) /\ Len(run_config_4_zamboni) = 19 /\ 19 + 1 = 20
  BY CommandsAre DEF run_config_4_zamboni
<1>2. t \in [1 .. 20 -> 0 .. 5] /\ t[1] = 0 /\ t[20] = 0
  OBVIOUS
<1>3. ASSUME NEW i \in 1 .. 19
      PROVE  Follows(run_config_4_zamboni[i], t[i], t[i + 1], 0)
  <2>1. i \in {1, 2, 3, 4, 5, 6, 7, 8, 9, 10, 11, 12, 13, 14, 15, 16, 17, 18,
        19}
    OBVIOUS
  <2> QED  BY <2>1, Follow DEF run_config_4_zamboni
<1> HIDE DEF t
<1> QED  BY <1>1, <1>2, <1>3 DEF InOrder

(* What is in order begins with a command that may be sent now, and the     *)
(* rest is in order after it.                                               *)
LEMMA InOrderTail ==
  ASSUME NEW q \in Seq(Commands), NEW v \in 0 .. 5, NEW least \in 0 .. 1,
         InOrder(q, v, least)
  PROVE  /\ q = <<>> => v = 0
         /\ q # <<>> =>
              /\ Head(q) \in Commands /\ Tail(q) \in Seq(Commands)
              /\ Head(q).op = "D" => v = 0
              /\ Head(q).op = "C" => v >= least
              /\ InOrder(Tail(q), SpeedAfter(v, Head(q)), least)
              /\ SpeedAfter(v, Head(q)) \in 0 .. 5
<1>1. PICK t \in [1 .. Len(q) + 1 -> 0 .. 5] :
        /\ t[1] = v /\ t[Len(q) + 1] = 0
        /\ \A i \in 1 .. Len(q) : Follows(q[i], t[i], t[i + 1], least)
  BY DEF InOrder
<1>2. Len(q) \in Nat /\ (q = <<>> => Len(q) = 0)
  OBVIOUS
<1>3. ASSUME q # <<>>
      PROVE  /\ Head(q) \in Commands /\ Tail(q) \in Seq(Commands)
             /\ Head(q).op = "D" => v = 0
             /\ Head(q).op = "C" => v >= least
             /\ InOrder(Tail(q), SpeedAfter(v, Head(q)), least)
             /\ SpeedAfter(v, Head(q)) \in 0 .. 5
  <2>1. /\ Len(q) > 0 /\ Head(q) = q[1] /\ q[1] \in Commands
        /\ Tail(q) \in Seq(Commands) /\ Len(Tail(q)) = Len(q) - 1
        /\ \A i \in 1 .. Len(q) - 1 : Tail(q)[i] = q[i + 1]
    BY <1>3
  <2>2. Follows(q[1], v, t[2], least)
    <3>1. 1 \in 1 .. Len(q) /\ 1 + 1 = 2
      BY <1>2, <2>1
    <3> QED BY ONLY <1>1, <3>1
  <2>3. t[2] = SpeedAfter(v, Head(q)) /\ t[2] \in 0 .. 5
    BY <1>1, <1>2, <2>1, <2>2 DEF Follows
  <2> DEFINE s == [i \in 1 .. Len(q) |-> t[i + 1]]
  <2>4. s \in [1 .. Len(Tail(q)) + 1 -> 0 .. 5] /\ s[1] = t[2] /\ s[Len(Tail(q)) + 1] = 0
    BY <1>1, <1>2, <2>1
  <2>5. ASSUME NEW i \in 1 .. Len(Tail(q))
        PROVE  Follows(Tail(q)[i], s[i], s[i + 1], least)
    <3>1. /\ i + 1 \in 1 .. Len(q) /\ i \in 1 .. Len(q) - 1 /\ i \in 1 .. Len(q)
          /\ i + 1 + 1 \in 1 .. Len(q) + 1
      BY <1>2, <2>1
    <3>2. s[i] = t[i + 1] /\ s[i + 1] = t[i + 1 + 1] /\ Tail(q)[i] = q[i + 1]
      BY ONLY <2>1, <3>1
    <3> QED BY ONLY <1>1, <3>1, <3>2
  <2>6. InOrder(Tail(q), t[2], least)
    BY ONLY <2>4, <2>5 DEF InOrder
  <2> QED BY <2>1, <2>2, <2>3, <2>6 DEF Follows
<1> QED BY <1>1, <1>2, <1>3

(* What is in order for a train that must move is so for one that need not. *)
LEMMA InOrderAnyway ==
  ASSUME NEW q, InOrder(q, 0, 1)
  PROVE  InOrder(q, 0, 0)
BY DEF InOrder, Follows

(* The Zamboni can press a contact while the train stands. *)
LeastSpeed == IF show_zamboni THEN 0 ELSE 1

(* Every script that run_train may choose is in order. *)
LEMMA ScriptsInOrder ==
  /\ \A n : run_train(n) \in Seq(Commands) /\ InOrder(run_train(n), 0, 0)
  /\ \A n \in {0, 10, 20, 30, 40} : InOrder(run_train(n), 0, 1)
<1>1. << >> \in Seq(Commands) /\ InOrder(<< >>, 0, 1)
  <2> DEFINE t == << 0 >>
  <2>1. t \in [1 .. Len(<< >>) + 1 -> 0 .. 5] /\ t[1] = 0 /\ Len(<< >>) = 0 /\ 1 .. 0 = {}
    OBVIOUS
  <2> QED  BY <2>1 DEF InOrder
<1>2. ASSUME NEW n \in {10, 20, 30, 40}
      PROVE  run_train(n) \in Seq(Commands) /\ InOrder(run_train(n), 0, 1)
  BY <1>2, Config1InOrder, Config2InOrder, Config3InOrder, Config4InOrder DEF run_train
<1>3. ASSUME NEW n \in {11, 21, 31, 41}
      PROVE  run_train(n) \in Seq(Commands) /\ InOrder(run_train(n), 0, 0)
  BY <1>3, Config1ZamboniInOrder, Config2ZamboniInOrder, Config3ZamboniInOrder,
     Config4ZamboniInOrder DEF run_train
<1>4. ASSUME NEW n, n \notin {10, 20, 30, 40}, n \notin {11, 21, 31, 41}
      PROVE  run_train(n) = << >>
  BY <1>4 DEF run_train
<1>5. run_train(0) = << >>
  BY DEF run_train
<1> QED  BY <1>1, <1>2, <1>3, <1>4, <1>5, InOrderAnyway

Phases == {"off", "init", "check", "find", "pause", "run", "done"}

(* The inductive invariant for any timing: while the simulation runs, what  *)
(* is left of a script is in order for the speed that the train has, and    *)
(* the C of a probe follows its R.                                          *)
CommandInv ==
  /\ phase \in Phases /\ simulation_running \in BOOLEAN /\ cleared \in BOOLEAN
  /\ simulation_running \/ zamboni = Lost
  /\ show_zamboni \in BOOLEAN /\ speed \in 0 .. 5
  /\ configuration \in 0 .. 5 /\ (phase # "off" => configuration # 0)
  /\ ~show_zamboni => zamboni = Away
  /\ cleared => Probing /\ (simulation_running => pre_cmd = R)
  /\ phase \notin {"run", "done"} => speed = 0
  /\ phase = "done" /\ simulation_running => speed = 0
  /\ phase = "init" => \A i \in 1 .. Len(script) : script[i].op = "M"
  /\ phase \in {"init", "run"} => script \in Seq(Commands)
  /\ phase \in {"init", "run"} /\ simulation_running => InOrder(script, speed, LeastSpeed)
  /\ phase \in {"off", "init", "check"} => probed \in (1 .. 4) \X (1 .. 2)
  /\ phase \in {"find", "pause"} => config_no \in {10, 20, 30, 40}

(* A command that follows another in the right way does not abort the     *)
(* simulation, and the speed is the one it sets.                           *)
LEMMA Accepted ==
  ASSUME NEW cmd \in Commands \cup {R}, process_train_command(cmd), speed \in 0 .. 5,
         simulation_running, cmd.op = "D" => speed = 0, cmd.op = "C" => pre_cmd = R
  PROVE  /\ simulation_running' /\ speed' = SpeedAfter(speed, cmd) /\ pre_cmd' = cmd
         /\ UNCHANGED <<configuration, show_zamboni>>
         /\ switches' = IF cmd.op = "M" THEN [switches EXCEPT ![cmd.n] = cmd.to]
                        ELSE switches
<1>1. ~Aborts(cmd)
  BY DEF Aborts, Commands, R
<1> QED  BY <1>1 DEF process_train_command, SpeedAfter

(* One that comes when the simulation has been aborted changes nothing. *)
LEMMA NoEffect ==
  ASSUME NEW cmd, process_train_command(cmd), ~simulation_running
  PROVE  UNCHANGED <<simulation_running, speed, pre_cmd, switches, configuration, show_zamboni>>
BY DEF process_train_command

(* A contact is asked with a command. *)
LEMMA Contacts == \A n \in 1 .. 16 : C(n) \in Commands /\ C(n).op = "C"
BY CommandsAre DEF C

(* A Zamboni that is not on the track does not come to it, and one that is *)
(* lost is not found again.                                                *)
LEMMA StaysAway ==
  ASSUME time_passes \/ \E k \in PauseTiles : zamboni_moves(k)
  PROVE  /\ zamboni = Away => zamboni' = Away
         /\ zamboni = Lost => zamboni' = Lost
BY DEF time_passes, zamboni_moves

LEMMA AwayIsNotLost == Away # Lost
BY DEF Away, Lost

(* Neither the train nor the wagon is where the Zamboni is looked for. *)
LEMMA NobodyElseThere ==
  ASSUME configuration \in 1 .. 5, status(4, Away) = 1
  PROVE  FALSE
<1>1. \A c \in 1 .. 5 : /\ configurations[c].train \notin ContactTiles(4)
                        /\ configurations[c].wagon \notin ContactTiles(4)
  <2> TAKE c \in 1 .. 5
  <2>1. c \in {1, 2, 3, 4, 5}
    OBVIOUS
  <2> QED  BY <2>1 DEF configurations, ContactTiles
<1> QED  BY <1>1 DEF status, Away

(* One lemma for each action. *)
LEMMA SendCommandInv ==
  ASSUME CommandInv, send_command
  PROVE  CommandInv' /\ simulation_running' = simulation_running
<1> DEFINE cmd == Head(script)
<1>1. /\ script \in Seq(Commands) /\ script # << >> /\ phase \in {"init", "run"}
      /\ cmd.op # "C" /\ speed \in 0 .. 5 /\ LeastSpeed \in 0 .. 1
      /\ simulation_running => InOrder(script, speed, LeastSpeed)
      /\ process_train_command(cmd) /\ script' = Tail(script)
      /\ UNCHANGED <<phase, cleared, probed, config_no>>
  BY DEF send_command, CommandInv, LeastSpeed
<1>2. /\ cmd \in Commands /\ Tail(script) \in Seq(Commands)
      /\ Len(script) > 0 /\ cmd = script[1] /\ Len(Tail(script)) = Len(script) - 1
      /\ \A i \in 1 .. Len(script) - 1 : Tail(script)[i] = script[i + 1]
  BY <1>1
<1>3. ~cleared
  BY <1>1 DEF CommandInv, Probing
<1>4. /\ ~show_zamboni => zamboni' = Away
      /\ zamboni = Lost => zamboni' = Lost
  BY StaysAway DEF CommandInv, send_command
<1>5. phase = "init" => /\ speed = 0 /\ cmd.op = "M"
                        /\ \A i \in 1 .. Len(script') : script'[i].op = "M"
  BY <1>1, <1>2 DEF CommandInv
<1>6. CASE simulation_running
  <2>1. /\ cmd.op = "D" => speed = 0
        /\ InOrder(Tail(script), SpeedAfter(speed, cmd), LeastSpeed)
        /\ SpeedAfter(speed, cmd) \in 0 .. 5
    BY ONLY <1>1, <1>6, InOrderTail
  <2>2. /\ simulation_running' /\ speed' = SpeedAfter(speed, cmd)
        /\ UNCHANGED <<configuration, show_zamboni>>
    BY ONLY <1>1, <1>2, <1>6, <2>1, Accepted
  <2>3. phase = "init" => speed' = 0
    BY <1>5, <2>2 DEF SpeedAfter
  <2>4. LeastSpeed' = LeastSpeed
    BY <2>2 DEF LeastSpeed
  <2> QED  BY <1>1, <1>2, <1>3, <1>4, <1>5, <1>6, <2>1, <2>2, <2>3, <2>4 DEF CommandInv
<1>7. CASE ~simulation_running
  BY <1>1, <1>2, <1>3, <1>4, <1>5, <1>7, NoEffect DEF CommandInv
<1> QED  BY <1>6, <1>7 DEF CommandInv

LEMMA ClearMemoryBufferInv ==
  ASSUME CommandInv, clear_memory_buffer
  PROVE  CommandInv' /\ simulation_running' = simulation_running
<1>1. /\ R \in Commands \cup {R} /\ R.op = "R" /\ process_train_command(R)
      /\ speed \in 0 .. 5
  BY DEF R, clear_memory_buffer, CommandInv
<1>2. /\ speed' = speed /\ simulation_running' = simulation_running
      /\ simulation_running => pre_cmd' = R
      /\ UNCHANGED <<configuration, show_zamboni>>
  <2>1. CASE simulation_running
    BY <1>1, <2>1, Accepted DEF SpeedAfter
  <2>2. CASE ~simulation_running
    BY <1>1, <2>2, NoEffect
  <2> QED  BY <2>1, <2>2
<1>3. /\ ~show_zamboni => zamboni' = Away
      /\ zamboni = Lost => zamboni' = Lost
  BY StaysAway DEF CommandInv, clear_memory_buffer
<1>4. Probing' /\ LeastSpeed' = LeastSpeed /\ cleared' = TRUE
      /\ UNCHANGED <<phase, script, probed, config_no>>
  BY <1>2 DEF Probing, LeastSpeed, clear_memory_buffer
<1> QED  BY <1>2, <1>3, <1>4 DEF CommandInv

LEMMA ProbeContactInv ==
  ASSUME CommandInv, probe_contact, simulation_running
  PROVE  CommandInv' /\ simulation_running'
<1>1. /\ Probing /\ cleared /\ pre_cmd = R /\ speed \in 0 .. 5
      /\ phase \in {"check", "find", "run"}
  BY DEF probe_contact, CommandInv, Probing
<1>2. ASSUME phase = "run"
      PROVE  /\ script \in Seq(Commands) /\ script # << >> /\ Head(script).op = "C"
             /\ Head(script) \in Commands /\ Tail(script) \in Seq(Commands)
             /\ InOrder(script, speed, LeastSpeed) /\ InOrder(Tail(script), speed, LeastSpeed)
  <2>1. /\ script \in Seq(Commands) /\ script # << >> /\ Head(script).op = "C"
        /\ InOrder(script, speed, LeastSpeed) /\ LeastSpeed \in 0 .. 1
    BY <1>1, <1>2 DEF Probing, CommandInv, LeastSpeed
  <2>2. /\ Head(script) \in Commands /\ Tail(script) \in Seq(Commands)
        /\ InOrder(Tail(script), SpeedAfter(speed, Head(script)), LeastSpeed)
    BY ONLY <1>1, <2>1, InOrderTail
  <2> QED  BY <2>1, <2>2 DEF SpeedAfter
<1>3. Contact \in 1 .. 16
  <2>1. CASE phase = "check"
    <3>1. probed \in (1 .. 4) \X (1 .. 2)
      BY <2>1 DEF CommandInv
    <3>2. \A i \in {1, 2, 3, 4}, j \in {1, 2} : tests[i][j] \in 1 .. 16
      BY DEF tests
    <3> QED  BY <2>1, <3>1, <3>2 DEF Contact
  <2>2. CASE phase = "find"
    BY <2>2 DEF Contact
  <2>3. CASE phase = "run"
    <3>1. Head(script).n \in 1 .. 16
      BY <1>2, <2>3 DEF Commands
    <3> QED  BY <2>3, <3>1 DEF Contact
  <2> QED  BY <1>1, <2>1, <2>2, <2>3
<1>4. /\ simulation_running' /\ speed' = speed
      /\ UNCHANGED <<configuration, show_zamboni>>
  <2>1. /\ C(Contact) \in Commands \cup {R} /\ C(Contact).op = "C"
        /\ process_train_command(C(Contact))
    BY <1>3, Contacts DEF probe_contact
  <2> QED  BY <1>1, <2>1, Accepted DEF SpeedAfter
<1>5. ~show_zamboni => zamboni' = Away
  BY StaysAway DEF CommandInv, probe_contact
<1>6. LeastSpeed' = LeastSpeed /\ cleared' = FALSE
  BY <1>4 DEF LeastSpeed, probe_contact
<1>7. PICK answer : /\ answer = 1 /\ phase = "find" => show_zamboni
                    /\ check_configuration(answer) \/ find_zamboni(answer)
                         \/ keep_probing(answer)
  <2>1. PICK a \in IF phase = "run" \/ zamboni' = Lost THEN {0, 1}
                   ELSE {status(Contact, zamboni')} :
           check_configuration(a) \/ find_zamboni(a) \/ keep_probing(a)
    BY <1>4 DEF probe_contact
  <2>2. ASSUME a = 1, phase = "find", ~show_zamboni PROVE FALSE
    <3>1. status(4, Away) = 1
      BY <1>5, <2>1, <2>2, AwayIsNotLost DEF Contact
    <3> QED  BY <2>2, <3>1, NobodyElseThere DEF CommandInv
  <2> QED  BY <2>1, <2>2
<1> USE DEF CommandInv
<1>8. CASE keep_probing(answer)
  BY <1>1, <1>2, <1>4, <1>5, <1>6, <1>8 DEF keep_probing
<1>9. CASE check_configuration(answer)
  <2>1. phase = "check" /\ speed = 0 /\ probed \in (1 .. 4) \X (1 .. 2) /\ Len(tests) = 4
    BY <1>9 DEF check_configuration, tests
  <2>2. CASE phase' = "check"
    <3>1. probed' \in (1 .. 4) \X (1 .. 2)
      BY <1>9, <2>1, <2>2 DEF check_configuration, run_script
    <3> QED  BY <1>1, <1>4, <1>5, <1>6, <2>1, <2>2, <3>1
  <2>3. CASE phase' = "find"
    <3>1. config_no' \in {10, 20, 30, 40}
      <4>1. config_no' = 10 * probed[1]
        BY <1>9, <2>1, <2>3 DEF check_configuration, run_script
      <4> QED  BY <2>1, <4>1
    <3> QED  BY <1>1, <1>4, <1>5, <1>6, <2>1, <2>3, <3>1 DEF Phases
  <2>4. CASE run_script(0)
    <3>1. InOrder(run_train(0), 0, LeastSpeed) /\ run_train(0) \in Seq(Commands)
      BY ScriptsInOrder DEF LeastSpeed
    <3> QED  BY <1>1, <1>4, <1>5, <1>6, <2>1, <2>4, <3>1 DEF run_script, Phases
  <2> QED  BY <1>9, <2>1, <2>2, <2>3, <2>4 DEF check_configuration
<1>10. CASE find_zamboni(answer)
  <2>1. phase = "find" /\ speed = 0 /\ config_no \in {10, 20, 30, 40}
    BY <1>10 DEF find_zamboni
  <2>2. CASE phase' = "pause"
    BY <1>4, <1>5, <1>6, <1>10, <2>1, <2>2 DEF find_zamboni, run_script, Phases
  <2>3. CASE answer = 1 /\ run_script(config_no + 1)
    <3>1. show_zamboni
      BY <1>7, <2>1, <2>3
    <3>2. InOrder(run_train(config_no + 1), 0, LeastSpeed)
          /\ run_train(config_no + 1) \in Seq(Commands)
      BY <3>1, ScriptsInOrder DEF LeastSpeed
    <3> QED  BY <1>4, <1>5, <1>6, <2>1, <2>3, <3>2 DEF run_script, Phases
  <2> QED  BY <1>10, <2>2, <2>3 DEF find_zamboni
<1> QED  BY <1>4, <1>7, <1>8, <1>9, <1>10

(* The program waits for an answer that does not come. *)
LEMMA NoAnswer ==
  ASSUME CommandInv, probe_contact, ~simulation_running
  PROVE  CommandInv' /\ ~simulation_running'
<1>1. /\ UNCHANGED <<simulation_running, speed, pre_cmd, switches, configuration, show_zamboni>>
      /\ UNCHANGED trainVars
  BY NoEffect DEF probe_contact
<1>2. zamboni = Lost /\ zamboni' = Lost
  BY StaysAway DEF CommandInv, probe_contact
<1> QED  BY <1>1, <1>2, AwayIsNotLost DEF CommandInv, trainVars, Probing

LEMMA PauseEndsInv ==
  ASSUME CommandInv, pause_ends
  PROVE  CommandInv' /\ simulation_running' = simulation_running
<1>1. /\ ~show_zamboni => zamboni' = Away
      /\ zamboni = Lost => zamboni' = Lost
  BY StaysAway DEF CommandInv, pause_ends
<1>2. /\ phase = "pause" /\ speed = 0 /\ config_no \in {10, 20, 30, 40} /\ ~cleared
      /\ UNCHANGED <<configuration, show_zamboni, speed, pre_cmd,
                     simulation_running, cleared>> /\ LeastSpeed' = LeastSpeed
  BY DEF CommandInv, pause_ends, LeastSpeed, Probing
<1>3. CASE phase' = "find" /\ config_no' = config_no
  BY <1>1, <1>2, <1>3 DEF CommandInv, Phases
<1>4. CASE run_script(config_no)
  <2>1. InOrder(run_train(config_no), 0, LeastSpeed) /\ run_train(config_no) \in Seq(Commands)
    BY <1>2, ScriptsInOrder DEF LeastSpeed
  <2> QED  BY <1>1, <1>2, <1>4, <2>1 DEF CommandInv, run_script, Phases
<1> QED  BY <1>3, <1>4 DEF pause_ends

(* Before the program runs. *)
LEMMA OffInv ==
  ASSUME CommandInv, simulator_is_reset \/ zamboni_runs \/ init_train
  PROVE  CommandInv' /\ (simulation_running => simulation_running')
<1>1. phase = "off" /\ speed = 0 /\ ~cleared
  BY DEF CommandInv, simulator_is_reset, zamboni_runs, init_train, Probing
<1>2. CASE simulator_is_reset
  <2>1. /\ configuration' \in 1 .. 5 /\ show_zamboni' \in BOOLEAN
        /\ ~show_zamboni' => zamboni' = Away
        /\ speed' = 0 /\ simulation_running' = TRUE /\ UNCHANGED trainVars
    BY <1>2 DEF simulator_is_reset, reset, setup_vehicles, start_simulation, configurations
  <2> QED  BY <1>1, <2>1 DEF CommandInv, trainVars, Probing
<1>3. CASE zamboni_runs
  <2>1. /\ ~show_zamboni => zamboni' = Away
        /\ zamboni = Lost => zamboni' = Lost
    BY <1>3 DEF zamboni_runs, zamboni_moves, CommandInv
  <2>2. UNCHANGED <<configuration, show_zamboni, switches, speed, pre_cmd,
                    simulation_running, trainVars>>
    BY <1>3 DEF zamboni_runs
  <2> QED  BY <1>1, <2>1, <2>2 DEF CommandInv, trainVars, Probing
<1>4. CASE init_train
  <2>1. /\ script' = init_train_track /\ phase' = "init" /\ configuration \in 1 .. 5
        /\ UNCHANGED <<trackVars, cleared, probed, config_no>>
    BY <1>4 DEF init_train, CommandInv
  <2>2. /\ init_train_track \in Seq(Commands) /\ InOrder(init_train_track, 0, LeastSpeed')
        /\ LeastSpeed' \in 0 .. 1
    BY InitTrainTrackInOrder, InOrderAnyway DEF LeastSpeed
  <2>3. \A i \in 1 .. Len(init_train_track) : init_train_track[i].op = "M"
    BY DEF init_train_track, M
  <2> QED  BY <1>1, <2>1, <2>2, <2>3 DEF CommandInv, trackVars, Phases
<1> QED  BY <1>2, <1>3, <1>4

LEMMA OtherStepsInv ==
  ASSUME CommandInv, zamboni_aborts \/ end_of_script \/ UNCHANGED <<trackVars, trainVars>>
  PROVE  /\ CommandInv'
         /\ simulation_running /\ ~simulation_running' => zamboni_aborts
<1>1. CASE zamboni_aborts
  <2>1. /\ zamboni' = Lost /\ simulation_running' = FALSE
        /\ UNCHANGED <<configuration, show_zamboni, zamboni, switches, speed, pre_cmd, trainVars>>
    BY <1>1 DEF zamboni_aborts, abort_simulation
  <2>2. /\ zamboni' = Lost /\ simulation_running' = FALSE /\ ~simulation_running'
        /\ UNCHANGED <<configuration, show_zamboni, zamboni, speed>>
        /\ UNCHANGED <<phase, script, cleared, probed, config_no>> /\ Probing' = Probing
    BY <2>1 DEF trainVars, Probing
  <2>3. CommandInv'
    BY ONLY CommandInv, <2>2 DEF CommandInv
  <2> QED  BY <1>1, <2>3
<1>2. CASE end_of_script
  <2>1. /\ simulation_running => speed = 0
        /\ ~cleared
    <3>1. /\ script \in Seq(Commands) /\ script = << >> /\ speed \in 0 .. 5
          /\ LeastSpeed \in 0 .. 1
          /\ simulation_running => InOrder(script, speed, LeastSpeed)
      BY <1>2 DEF CommandInv, end_of_script, LeastSpeed
    <3>2. simulation_running => speed = 0
      BY ONLY <3>1, InOrderTail
    <3> QED  BY <1>2, <3>1, <3>2 DEF CommandInv, end_of_script, Probing
  <2> QED  BY <1>2, <2>1 DEF CommandInv, end_of_script, trackVars, Phases
<1>3. CASE UNCHANGED <<trackVars, trainVars>>
  BY <1>3 DEF CommandInv, trackVars, trainVars, Probing, LeastSpeed
<1> QED  BY <1>1, <1>2, <1>3

(* However fast the Zamboni is and whatever the contacts answer, run_train  *)
(* of train.c and what it calls send their commands in order: what is left  *)
(* of a script always begins with a command that the simulator takes.       *)
THEOREM CommandsInOrder == TrainSpec => []CommandInv
<1>1. TrainInit => CommandInv
  <2> SUFFICES ASSUME TrainInit PROVE CommandInv
    OBVIOUS
  <2>1. /\ phase = "off" /\ configuration = 0 /\ simulation_running = TRUE /\ cleared = FALSE
        /\ show_zamboni = FALSE /\ speed = 0 /\ zamboni = Away /\ probed = <<1, 1>>
    BY DEF TrainInit, TrackInit
  <2>2. <<1, 1>> \in (1 .. 4) \X (1 .. 2)
    OBVIOUS
  <2>3. /\ cleared \in BOOLEAN /\ ~cleared /\ show_zamboni \in BOOLEAN
        /\ simulation_running \in BOOLEAN /\ simulation_running
    BY <2>1
  <2>4. phase \in Phases /\ phase \notin {"init", "run", "find", "pause", "done"}
    BY <2>1 DEF Phases
  <2> QED  BY ONLY <2>1, <2>2, <2>3, <2>4 DEF CommandInv
<1>2. CommandInv /\ [TrainNext]_<<trackVars, trainVars>> => CommandInv'
  <2> SUFFICES ASSUME CommandInv, [TrainNext]_<<trackVars, trainVars>> PROVE CommandInv'
    OBVIOUS
  <2>1. simulation_running \in BOOLEAN
    BY DEF CommandInv
  <2> QED  BY <2>1, SendCommandInv, ClearMemoryBufferInv, ProbeContactInv, NoAnswer,
              PauseEndsInv, OffInv, OtherStepsInv DEF TrainNext, train_loops
<1> QED  BY <1>1, <1>2, PTL DEF TrainSpec

(* No command of train.c makes the simulator stop: the train is never       *)
(* turned while it moves, and no contact is asked without R before it.      *)
THEOREM SimulatorRunsOn == TrainSpec => SimulatorNeverAborts
<1>1. CommandInv /\ [TrainNext]_<<trackVars, trainVars>>
        => [simulation_running /\ ~simulation_running' => abort_simulation]_<<trackVars, trainVars>>
  <2> SUFFICES ASSUME CommandInv, [TrainNext]_<<trackVars, trainVars>>,
                      simulation_running, ~simulation_running'
               PROVE  abort_simulation
    OBVIOUS
  <2>1. CASE zamboni_aborts
    BY <2>1 DEF zamboni_aborts
  <2> QED  BY <2>1, SendCommandInv, ClearMemoryBufferInv, ProbeContactInv,
              PauseEndsInv, OffInv, OtherStepsInv DEF TrainNext, train_loops
<1> QED  BY <1>1, CommandsInOrder, PTL DEF TrainSpec, SimulatorNeverAborts

(* keep_probing never waits with a standing train for a contact that only   *)
(* the train can press, and the train stands when run_train is done.        *)
THEOREM TrainIsMoved == TrainSpec => []TrainGoesAndStops
<1>1. CommandInv => TrainGoesAndStops
  <2> SUFFICES ASSUME CommandInv PROVE TrainGoesAndStops
    OBVIOUS
  <2>1. ASSUME phase = "run", Probing, ~show_zamboni PROVE speed > 0
    <3>1. simulation_running
      BY <2>1, AwayIsNotLost DEF CommandInv
    <3>2. /\ script \in Seq(Commands) /\ script # << >> /\ Head(script).op = "C"
          /\ speed \in 0 .. 5 /\ InOrder(script, speed, 1) /\ 1 \in 0 .. 1
      BY <2>1, <3>1 DEF CommandInv, Probing, LeastSpeed
    <3> QED  BY ONLY <3>2, InOrderTail
  <2>2. phase = "done" => speed = 0 \/ ~simulation_running
    BY DEF CommandInv
  <2> QED  BY <2>1, <2>2 DEF TrainGoesAndStops
<1> QED  BY <1>1, CommandsInOrder, PTL

-----------------------------------------------------------------------------
(***************************************************************************)
(* Then where the Zamboni is: at first for any timing.                     *)
(***************************************************************************)

(* Where the tiles of the loop are that matter. *)
LEMMA LoopTiles ==
  ASSUME NEW i \in 1 .. 36
  PROVE  /\ OuterLoop[i] = <<5, 10>> <=> i = 6
         /\ OuterLoop[i] = <<6, 10>> <=> i = 5
         /\ OuterLoop[i] \in ContactTiles(4) <=> i \in 4 .. 8
         /\ \A c \in {5, 8, 9, 11, 16} : OuterLoop[i] \notin ContactTiles(c)
         /\ \A s \in Astray : OuterLoop[i] = s.tile =>
              \/ i = 19 /\ s.switch = 5 /\ s.to = "R" /\ s.clockwise = TRUE
              \/ i = 32 /\ s.switch = 9 /\ s.to = "G" /\ s.clockwise = TRUE
              \/ i = 34 /\ s.switch = 1 /\ s.to = "R" /\ s.clockwise = TRUE
              \/ i = 25 /\ s.switch = 8 /\ s.to = "R" /\ s.clockwise = FALSE
              \/ i = 9 /\ s.switch = 4 /\ s.to = "R" /\ s.clockwise = FALSE
<1>1. i \in {1, 2, 3, 4, 5, 6, 7, 8, 9, 10, 11, 12, 13, 14, 15, 16, 17, 18, 19, 20, 21,
             22, 23, 24, 25, 26, 27, 28, 29, 30, 31, 32, 33, 34, 35, 36}
  OBVIOUS
<1>2. OuterLoop[i] = <<5, 10>> <=> i = 6
  BY <1>1 DEF OuterLoop
<1>3. OuterLoop[i] = <<6, 10>> <=> i = 5
  BY <1>1 DEF OuterLoop
<1>4. OuterLoop[i] \in ContactTiles(4) <=> i \in 4 .. 8
  BY <1>1 DEF OuterLoop, ContactTiles
<1>5. ASSUME NEW c \in {5, 8, 9, 11, 16} PROVE OuterLoop[i] \notin ContactTiles(c)
  <2> USE <1>1 DEF OuterLoop, ContactTiles
  <2>1. CASE c = 5
    BY <2>1
  <2>2. CASE c = 8
    BY <2>2
  <2>3. CASE c = 9
    BY <2>3
  <2>4. CASE c = 11
    BY <2>4
  <2>5. CASE c = 16
    BY <2>5
  <2> QED  BY ONLY <1>5, <2>1, <2>2, <2>3, <2>4, <2>5
<1>6. ASSUME NEW s \in Astray, OuterLoop[i] = s.tile
      PROVE  \/ i = 19 /\ s.switch = 5 /\ s.to = "R" /\ s.clockwise = TRUE
             \/ i = 32 /\ s.switch = 9 /\ s.to = "G" /\ s.clockwise = TRUE
             \/ i = 34 /\ s.switch = 1 /\ s.to = "R" /\ s.clockwise = TRUE
             \/ i = 25 /\ s.switch = 8 /\ s.to = "R" /\ s.clockwise = FALSE
             \/ i = 9 /\ s.switch = 4 /\ s.to = "R" /\ s.clockwise = FALSE
  BY <1>1, <1>6 DEF OuterLoop, Astray
<1> QED  BY <1>2, <1>3, <1>4, <1>5, <1>6

(* The Zamboni on the loop: how many tiles it has to go to the contact that *)
(* it is looked for with.                                                   *)
OnTheLoop == [at : 1 .. 36, clockwise : BOOLEAN]
ToGo(z) == IF z.clockwise THEN (4 - z.at) % 36 ELSE (z.at - 8) % 36

LEMMA LoopIsRound ==
  ASSUME NEW z \in OnTheLoop, NEW k \in Nat
  PROVE  Ahead(z, k) \in 1 .. 36
<1>1. Len(OuterLoop) = 36
  BY DEF OuterLoop
<1>2. \A n \in Int : 1 + (n % 36) \in 1 .. 36
  OBVIOUS
<1>3. z.at - 1 + (IF z.clockwise THEN k ELSE -k) \in Int
  BY DEF OnTheLoop
<1> QED  BY <1>1, <1>2, <1>3 DEF Ahead

(* A Zamboni on the loop is neither missing nor led off it. *)
LEMMA NotOff == \A z \in OnTheLoop : z \notin {Away, Lost}
BY DEF OnTheLoop, Away, Lost

(* It stays on the loop or is lost. *)
LEMMA ZamboniGoes ==
  ASSUME zamboni \in OnTheLoop \cup {Lost}, NEW k \in Nat, zamboni_moves(k)
  PROVE  /\ zamboni' \in OnTheLoop \cup {Lost}
         /\ zamboni = Lost => zamboni' = Lost
<1>1. CASE zamboni \in OnTheLoop
  BY <1>1, LoopIsRound, NotOff DEF zamboni_moves, OnTheLoop
<1>2. CASE zamboni = Lost
  BY <1>2 DEF zamboni_moves
<1> QED  BY <1>1, <1>2, NotOff

(* Each switch is as init_train_track sets it. *)
SettingsRight == \A i \in 1 .. 5 : switches[init_train_track[i].n] = init_train_track[i].to

(* Once the switches are set the Zamboni is never led astray. *)
LEMMA LoopIsClosed ==
  ASSUME SettingsRight, simulation_running, zamboni \in OnTheLoop, NEW k \in Nat,
         zamboni_moves(k)
  PROVE  /\ zamboni' = [zamboni EXCEPT !.at = Ahead(zamboni, k)]
         /\ zamboni' \in OnTheLoop
<1>1. /\ switches[5] = "G" /\ switches[8] = "G" /\ switches[1] = "G"
      /\ switches[4] = "G" /\ switches[9] = "R"
  <2>1. /\ init_train_track[1] = M(5, "G") /\ init_train_track[2] = M(8, "G")
        /\ init_train_track[3] = M(1, "G") /\ init_train_track[4] = M(4, "G")
        /\ init_train_track[5] = M(9, "R")
    BY DEF init_train_track
  <2>2. \A i \in {1, 2, 3, 4, 5} :
          switches[init_train_track[i].n] = init_train_track[i].to
    BY DEF SettingsRight
  <2> QED  BY <2>1, <2>2 DEF M
<1>2. zamboni \notin {Away, Lost}
  BY NotOff
<1>3. ASSUME NEW j \in 1 .. k, NEW s \in Astray,
             OuterLoop[Ahead(zamboni, j)] = s.tile, s.clockwise = zamboni.clockwise,
             switches[s.switch] = s.to
      PROVE  FALSE
  <2>1. Ahead(zamboni, j) \in 1 .. 36
    <3>1. j \in Nat
      OBVIOUS
    <3> QED  BY <3>1, LoopIsRound
  <2>2. \/ s.switch = 5 /\ s.to = "R"
        \/ s.switch = 9 /\ s.to = "G"
        \/ s.switch = 1 /\ s.to = "R"
        \/ s.switch = 8 /\ s.to = "R"
        \/ s.switch = 4 /\ s.to = "R"
    BY ONLY <1>3, <2>1, LoopTiles
  <2> QED  BY ONLY <1>1, <1>3, <2>2
<1>4. zamboni' = [zamboni EXCEPT !.at = Ahead(zamboni, k)]
  BY <1>2, <1>3 DEF zamboni_moves
<1> QED  BY <1>4, LoopIsRound DEF OnTheLoop

(* While init_train_track is sent, the first of its switches are set. *)
Sent == 5 - Len(script)
SetSoFar ==
  /\ Len(script) \in 0 .. 5
  /\ \A i \in 1 .. Len(script) : script[i] = init_train_track[Sent + i]
  /\ \A i \in 1 .. Sent : switches[init_train_track[i].n] = init_train_track[i].to

(* The inductive invariant: the Zamboni, if there is one, is on the loop or *)
(* lost, and when it is not lost the switches are set that have been sent.  *)
RouteInv ==
  /\ switches \in [1 .. 9 -> {"G", "R"}]
  /\ IF show_zamboni THEN zamboni \in OnTheLoop \cup {Lost} ELSE zamboni = Away
  /\ phase = "init" /\ zamboni # Lost => SetSoFar
  /\ phase \in {"check", "find", "pause"} /\ zamboni # Lost => SettingsRight

(* A step that lets the Zamboni pass some tiles. *)
LEMMA RouteGoesOn ==
  ASSUME RouteInv, show_zamboni' = show_zamboni, NEW k \in Nat, zamboni_moves(k)
  PROVE  /\ IF show_zamboni' THEN zamboni' \in OnTheLoop \cup {Lost} ELSE zamboni' = Away
         /\ zamboni = Lost => zamboni' = Lost
<1>1. CASE show_zamboni
  BY <1>1, ZamboniGoes DEF RouteInv
<1>2. CASE ~show_zamboni
  BY <1>2, AwayIsNotLost DEF RouteInv, zamboni_moves
<1> QED  BY <1>1, <1>2

(* In a step of the program it passes some, or it is not followed. *)
LEMMA TilesArePassed ==
  ASSUME send_command \/ clear_memory_buffer \/ probe_contact \/ pause_ends
  PROVE  zamboni' = zamboni \/ \E k \in Nat : zamboni_moves(k)
BY TrainAssumption DEF send_command, clear_memory_buffer, probe_contact, pause_ends, time_passes

(* One lemma for each action. *)
LEMMA RouteOff ==
  ASSUME RouteInv, CommandInv, simulator_is_reset \/ zamboni_runs \/ init_train
  PROVE  RouteInv'
<1>1. CASE simulator_is_reset
  <2>1. phase' = "off" /\ setup_vehicles /\ reset_switches
    BY <1>1 DEF simulator_is_reset, reset, trainVars
  <2>2. switches' \in [1 .. 9 -> {"G", "R"}]
    <3>1. PICK red \in SUBSET LoopSwitches :
             switches' = [s \in 1 .. 9 |-> IF s \in red THEN "R" ELSE "G"]
      BY <2>1 DEF reset_switches
    <3> QED  BY <3>1
  <2>3. IF show_zamboni' THEN zamboni' \in OnTheLoop ELSE zamboni' = Away
    <3>1. CASE ~show_zamboni'
      BY <2>1, <3>1 DEF setup_vehicles
    <3>2. CASE show_zamboni'
      <4> DEFINE start == configurations[configuration']
                 place == CHOOSE i \in DOMAIN OuterLoop : OuterLoop[i] = start.zamboni
      <4>1. zamboni' = [at |-> place, clockwise |-> start.clockwise]
        BY <2>1, <3>2 DEF setup_vehicles
      <4>2. /\ start.zamboni = <<5, 10>> \/ start.zamboni = <<6, 10>>
            /\ start.clockwise = FALSE \/ start.clockwise = TRUE
        <5>1. configuration' \in {1, 2, 3, 4, 5}
          BY <2>1 DEF setup_vehicles, configurations
        <5>2. start.zamboni = <<5, 10>> \/ start.zamboni = <<6, 10>>
          BY <5>1 DEF configurations
        <5>3. start.clockwise = FALSE \/ start.clockwise = TRUE
          BY <5>1 DEF configurations
        <5> QED  BY <5>2, <5>3
      <4>3. DOMAIN OuterLoop = 1 .. 36 /\ OuterLoop[5] = <<6, 10>> /\ OuterLoop[6] = <<5, 10>>
        BY DEF OuterLoop
      <4>4. place \in 1 .. 36
        <5>1. \E i \in DOMAIN OuterLoop : OuterLoop[i] = start.zamboni
          BY <4>2, <4>3
        <5> QED  BY <4>3, <5>1
      <4> HIDE DEF place, start
      <4>5. start.clockwise \in BOOLEAN
        BY <4>2
      <4> QED  BY <3>2, <4>1, <4>4, <4>5 DEF OnTheLoop
    <3> QED  BY <3>1, <3>2
  <2> QED  BY <2>1, <2>2, <2>3 DEF RouteInv
<1>2. CASE zamboni_runs
  <2>1. phase' = "off" /\ zamboni_moves(1) /\ UNCHANGED <<show_zamboni, switches>>
    BY <1>2 DEF zamboni_runs, trainVars
  <2> QED  BY <2>1, RouteGoesOn DEF RouteInv
<1>3. CASE init_train
  <2>1. /\ phase' = "init" /\ script' = init_train_track
        /\ UNCHANGED <<switches, show_zamboni, zamboni>>
    BY <1>3 DEF init_train, trackVars
  <2>2. SetSoFar'
    <3>1. Len(init_train_track) = 5
      BY DEF init_train_track
    <3>2. Len(script') = 5 /\ Sent' = 0 /\ 1 .. 0 = {}
      BY <2>1, <3>1 DEF Sent
    <3>3. \A i \in 1 .. 5 : script'[i] = init_train_track[0 + i]
      BY <2>1
    <3> QED  BY <3>2, <3>3 DEF SetSoFar
  <2> QED  BY <2>1, <2>2 DEF RouteInv
<1> QED  BY <1>1, <1>2, <1>3

LEMMA RouteSendCommand ==
  ASSUME RouteInv, CommandInv, send_command
  PROVE  RouteInv'
<1> DEFINE cmd == Head(script)
<1>1. /\ phase \in {"init", "run"} /\ script # << >> /\ script' = Tail(script)
      /\ script \in Seq(Commands) /\ cmd \in Commands
      /\ phase' = phase /\ process_train_command(cmd)
  BY DEF send_command, CommandInv
<1>2. /\ UNCHANGED <<configuration, show_zamboni>>
      /\ \/ switches' = switches
         \/ switches' = [switches EXCEPT ![cmd.n] = cmd.to] /\ cmd.op = "M"
  BY <1>1 DEF process_train_command
<1>3. switches' \in [1 .. 9 -> {"G", "R"}]
  <2>1. cmd.op = "M" => cmd.n \in 1 .. 9 /\ cmd.to \in {"G", "R"}
    BY <1>1 DEF Commands
  <2> QED  BY <1>2, <2>1 DEF RouteInv
<1>4. /\ IF show_zamboni' THEN zamboni' \in OnTheLoop \cup {Lost} ELSE zamboni' = Away
      /\ zamboni = Lost => zamboni' = Lost
  BY <1>2, TilesArePassed, RouteGoesOn DEF RouteInv
<1>5. ASSUME phase = "init", zamboni' # Lost PROVE SetSoFar'
  <2>1. SetSoFar /\ simulation_running
    BY <1>4, <1>5 DEF RouteInv, CommandInv
  <2>2. /\ Len(script) \in 1 .. 5 /\ Sent \in 0 .. 4 /\ Len(script') = Len(script) - 1
        /\ Sent' = Sent + 1 /\ Head(script) = script[1]
        /\ \A i \in 1 .. Len(script) - 1 : script'[i] = script[i + 1]
    <3>1. script \in Seq(Commands) /\ script # << >> /\ script' = Tail(script)
      BY ONLY <1>1
    <3>2. /\ Len(script) \in Nat /\ Len(script) > 0 /\ Len(script') = Len(script) - 1
          /\ Head(script) = script[1]
          /\ \A i \in 1 .. Len(script) - 1 : script'[i] = script[i + 1]
      BY ONLY <3>1
    <3>3. Len(script) \in 0 .. 5
      BY ONLY <2>1 DEF SetSoFar
    <3> QED  BY ONLY <3>2, <3>3 DEF Sent
  <2>3. cmd = init_train_track[Sent + 1]
    BY <2>1, <2>2 DEF SetSoFar
  <2>4. \A i \in 1 .. Len(script') : script'[i] = init_train_track[Sent' + i]
    <3>1. SUFFICES ASSUME NEW i \in 1 .. Len(script')
                   PROVE  script'[i] = init_train_track[Sent' + i]
      OBVIOUS
    <3>2. i + 1 \in 1 .. Len(script) /\ script'[i] = script[i + 1]
          /\ Sent' + i = Sent + (i + 1)
      BY <2>2
    <3> QED  BY <2>1, <3>2 DEF SetSoFar
  <2>5. \A i \in 1 .. Sent' : switches'[init_train_track[i].n] = init_train_track[i].to
    <3>1. /\ init_train_track[1] = M(5, "G") /\ init_train_track[2] = M(8, "G")
          /\ init_train_track[3] = M(1, "G") /\ init_train_track[4] = M(4, "G")
          /\ init_train_track[5] = M(9, "R")
      BY DEF init_train_track
    <3>2. switches' = [switches EXCEPT ![cmd.n] = cmd.to] /\ cmd.op = "M"
      <4>1. Sent + 1 \in {1, 2, 3, 4, 5}
        BY <2>2
      <4>2. cmd.op = "M" /\ cmd.n \in 1 .. 9
        BY <2>3, <3>1, <4>1 DEF M
      <4> QED  BY <1>1, <2>1, <4>2 DEF Aborts, process_train_command
    <3>3. \A i, j \in {1, 2, 3, 4, 5} :
             /\ init_train_track[i].n \in 1 .. 9
             /\ i # j => init_train_track[i].n # init_train_track[j].n
      BY <3>1 DEF M
    <3>4. SUFFICES ASSUME NEW i \in 1 .. Sent'
                   PROVE  switches'[init_train_track[i].n] = init_train_track[i].to
      OBVIOUS
    <3>5. i \in {1, 2, 3, 4, 5} /\ Sent + 1 \in {1, 2, 3, 4, 5}
      BY <2>2
    <3>6. switches \in [1 .. 9 -> {"G", "R"}]
      BY DEF RouteInv
    <3>7. CASE i = Sent + 1
      BY <2>3, <3>2, <3>3, <3>5, <3>6, <3>7
    <3>8. CASE i # Sent + 1
      <4>1. i \in 1 .. Sent
        BY <2>2, <3>8
      <4>2. switches[init_train_track[i].n] = init_train_track[i].to
        BY <2>1, <4>1 DEF SetSoFar
      <4> QED  BY <2>3, <3>2, <3>3, <3>5, <3>6, <3>8, <4>2
    <3> QED  BY <3>7, <3>8
  <2> QED  BY ONLY <2>2, <2>4, <2>5 DEF SetSoFar
<1> QED  BY <1>1, <1>3, <1>4, <1>5 DEF RouteInv

LEMMA RouteOtherSteps ==
  ASSUME RouteInv, CommandInv,
         \/ clear_memory_buffer \/ probe_contact \/ pause_ends
         \/ zamboni_aborts \/ end_of_script \/ UNCHANGED <<trackVars, trainVars>>
  PROVE  RouteInv'
<1>1. /\ UNCHANGED <<show_zamboni, switches>>
      /\ phase' = "init" => phase = "init" /\ script' = script
      /\ phase' \in {"check", "find", "pause"} =>
           \/ phase \in {"check", "find", "pause"}
           \/ phase = "init" /\ script = << >>
  <2>1. CASE clear_memory_buffer
    BY <2>1 DEF clear_memory_buffer, process_train_command, R
  <2>2. CASE probe_contact
    <3>1. UNCHANGED <<show_zamboni, switches>>
      BY <2>2 DEF probe_contact, process_train_command, C
    <3> QED  BY <2>2, <3>1 DEF probe_contact, check_configuration, find_zamboni,
                keep_probing, run_script, trainVars
  <2>3. CASE pause_ends
    BY <2>3 DEF pause_ends, run_script
  <2>4. CASE zamboni_aborts
    BY <2>4 DEF zamboni_aborts, abort_simulation, trainVars
  <2>5. CASE end_of_script
    BY <2>5 DEF end_of_script, trackVars
  <2>6. CASE UNCHANGED <<trackVars, trainVars>>
    BY <2>6 DEF trackVars, trainVars
  <2> QED  BY <2>1, <2>2, <2>3, <2>4, <2>5, <2>6
<1>2. /\ IF show_zamboni' THEN zamboni' \in OnTheLoop \cup {Lost} ELSE zamboni' = Away
      /\ zamboni = Lost => zamboni' = Lost
  <2>1. CASE clear_memory_buffer \/ probe_contact \/ pause_ends
    BY <1>1, <2>1, TilesArePassed, RouteGoesOn DEF RouteInv
  <2>2. CASE zamboni_aborts \/ end_of_script \/ UNCHANGED <<trackVars, trainVars>>
    BY <1>1, <2>2 DEF RouteInv, zamboni_aborts, abort_simulation, end_of_script, trackVars
  <2> QED  BY <2>1, <2>2
<1>3. SetSoFar /\ script = << >> => SettingsRight
  BY DEF SetSoFar, Sent, SettingsRight
<1>4. /\ SettingsRight => SettingsRight'
      /\ SetSoFar /\ script' = script => SetSoFar'
  BY <1>1 DEF SettingsRight, SetSoFar, Sent
<1> QED  BY <1>1, <1>2, <1>3, <1>4 DEF RouteInv

LEMMA RouteHolds == TrainSpec => []RouteInv
<1>1. TrainInit => RouteInv
  <2> SUFFICES ASSUME TrainInit PROVE RouteInv
    OBVIOUS
  <2>1. /\ phase = "off" /\ ~show_zamboni /\ zamboni = Away
        /\ switches = [s \in 1 .. 9 |-> "G"]
    BY DEF TrainInit, TrackInit
  <2> QED  BY <2>1 DEF RouteInv
<1>2. RouteInv /\ CommandInv /\ [TrainNext]_<<trackVars, trainVars>> => RouteInv'
  <2> SUFFICES ASSUME RouteInv, CommandInv, [TrainNext]_<<trackVars, trainVars>>
               PROVE  RouteInv'
    OBVIOUS
  <2> QED  BY RouteOff, RouteSendCommand, RouteOtherSteps DEF TrainNext, train_loops
<1> QED  BY <1>1, <1>2, CommandsInOrder, PTL DEF TrainSpec

(* From when init_train_track of train.c has set the switches, the Zamboni  *)
(* is kept on the outer loop, wherever it was and however fast it is,       *)
(* until the script begins.                                                 *)
THEOREM ZamboniKeepsToTheLoop == TrainSpec => ZamboniStaysOnTheLoop
<1>1. RouteInv /\ CommandInv /\ [TrainNext]_<<trackVars, trainVars>>
        => [zamboni # Lost /\ zamboni' = Lost =>
              phase = "off" \/ (phase = "init" /\ script # << >>)]_<<trackVars, trainVars>>
  <2> SUFFICES ASSUME RouteInv, CommandInv, [TrainNext]_<<trackVars, trainVars>>,
                      zamboni # Lost, zamboni' = Lost,
                      phase # "off", ~(phase = "init" /\ script # << >>)
               PROVE  FALSE
    OBVIOUS
  <2>1. ASSUME phase = "run", send_command \/ clear_memory_buffer \/ probe_contact
        PROVE  FALSE
    BY <2>1 DEF send_command, clear_memory_buffer, probe_contact, time_passes
  <2>2. ASSUME phase \in {"check", "find", "pause"},
               clear_memory_buffer \/ probe_contact \/ pause_ends
        PROVE  FALSE
    <3>1. PICK k \in Nat : zamboni' = zamboni \/ zamboni_moves(k)
      BY <2>2, TilesArePassed
    <3>2. zamboni_moves(k)
      BY <3>1
    <3>3. SettingsRight /\ simulation_running
      BY <2>2 DEF RouteInv, CommandInv
    <3>4. CASE show_zamboni
      <4>1. zamboni \in OnTheLoop
        BY <3>4 DEF RouteInv
      <4> QED  BY <3>2, <3>3, <4>1, LoopIsClosed, NotOff
    <3>5. CASE ~show_zamboni
      BY <3>2, <3>5 DEF RouteInv, zamboni_moves
    <3> QED  BY <3>4, <3>5
  <2>3. CASE send_command
    BY <2>1, <2>3 DEF send_command
  <2>4. CASE clear_memory_buffer \/ probe_contact
    BY <2>1, <2>2, <2>4 DEF clear_memory_buffer, probe_contact, Probing
  <2>5. CASE pause_ends
    BY <2>2, <2>5 DEF pause_ends
  <2>6. CASE simulator_is_reset \/ zamboni_runs \/ init_train
    BY <2>6 DEF simulator_is_reset, zamboni_runs, init_train
  <2>7. CASE zamboni_aborts \/ end_of_script \/ UNCHANGED <<trackVars, trainVars>>
    BY <2>7 DEF zamboni_aborts, abort_simulation, end_of_script, trackVars
  <2> QED  BY <2>3, <2>4, <2>5, <2>6, <2>7 DEF TrainNext, train_loops
<1> QED  BY <1>1, RouteHolds, CommandsInOrder, PTL DEF TrainSpec, ZamboniStaysOnTheLoop

-----------------------------------------------------------------------------
(***************************************************************************)
(* Then what the program finds, which depends on the timing.  A turn of    *)
(* find_zamboni, two commands and a pause, may let the Zamboni pass five   *)
(* tiles at most, because a contact covers five tiles and it must not pass *)
(* the contact between two questions.  A turn must let it pass d tiles at  *)
(* least, such that ZAMBONI_LOOP turns bring it to the contact from        *)
(* wherever it is: ZAMBONI_LOOP "is the length of time by which Zamboni    *)
(* makes a round trip" (train.c:166).  train.c chooses SLEEP_TICKS and     *)
(* ZAMBONI_LOOP for this.  CommandTiles = {0, 1}, PauseTiles = {3} and     *)
(* ZAMBONI_LOOP = 15, the values of the run parts, are such a timing, with *)
(* d = 3.                                                                  *)
(***************************************************************************)
Paced(d) ==
  /\ CommandTiles \cup PauseTiles \subseteq 0 .. 5
  /\ d * (ZAMBONI_LOOP - 1) > 30
  /\ \A c1, c2 \in CommandTiles, p \in PauseTiles : c1 + c2 + p \in d .. 5
Timely == \E d \in 1 .. 5 : Paced(d)

(* % on the 36 tiles of the loop, written out. *)
LEMMA LoopWrittenOut ==
  ASSUME NEW z \in OnTheLoop, NEW k \in 0 .. 5
  PROVE  /\ Ahead(z, k) = IF z.clockwise
                          THEN IF z.at + k <= 36 THEN z.at + k ELSE z.at + k - 36
                          ELSE IF z.at - k >= 1 THEN z.at - k ELSE z.at - k + 36
         /\ Ahead(z, k) \in 1 .. 36
<1>1. Len(OuterLoop) = 36
  BY DEF OuterLoop
<1> QED  BY <1>1 DEF Ahead, OnTheLoop

LEMMA TilesToGo ==
  ASSUME NEW z \in OnTheLoop
  PROVE  /\ ToGo(z) = IF z.clockwise THEN IF z.at <= 4 THEN 4 - z.at ELSE 40 - z.at
                      ELSE IF z.at >= 8 THEN z.at - 8 ELSE z.at + 28
         /\ ToGo(z) \in 0 .. 35
         /\ z.at \in 4 .. 8 <=> ToGo(z) \in {0} \cup 32 .. 35
BY DEF ToGo, OnTheLoop

(* What k tiles change. *)
LEMMA ZamboniPasses ==
  ASSUME NEW z \in OnTheLoop, NEW k \in 0 .. 5, NEW w, w = [z EXCEPT !.at = Ahead(z, k)]
  PROVE  /\ w \in OnTheLoop
         /\ ToGo(w) = IF ToGo(z) >= k THEN ToGo(z) - k ELSE ToGo(z) - k + 36
<1>1. w \in OnTheLoop /\ w.at = Ahead(z, k) /\ w.clockwise = z.clockwise
  BY LoopWrittenOut DEF OnTheLoop
<1>2. z.at \in 1 .. 36 /\ z.clockwise \in BOOLEAN
  BY DEF OnTheLoop
<1>3. CASE z.clockwise
  <2>1. w.at = IF z.at + k <= 36 THEN z.at + k ELSE z.at + k - 36
    BY <1>1, <1>3, LoopWrittenOut
  <2>2. /\ ToGo(z) = IF z.at <= 4 THEN 4 - z.at ELSE 40 - z.at
        /\ ToGo(w) = IF w.at <= 4 THEN 4 - w.at ELSE 40 - w.at
    BY <1>1, <1>3, TilesToGo
  <2> QED  BY <1>1, <1>2, <2>1, <2>2
<1>4. CASE ~z.clockwise
  <2>1. w.at = IF z.at - k >= 1 THEN z.at - k ELSE z.at - k + 36
    BY <1>1, <1>4, LoopWrittenOut
  <2>2. /\ ToGo(z) = IF z.at >= 8 THEN z.at - 8 ELSE z.at + 28
        /\ ToGo(w) = IF w.at >= 8 THEN w.at - 8 ELSE w.at + 28
    BY <1>1, <1>4, TilesToGo
  <2> QED  BY <1>1, <1>2, <2>1, <2>2
<1> QED  BY <1>3, <1>4

(* The contacts that a train or a wagon presses, in each configuration, and *)
(* the questions that check_configuration comes to ask.                    *)
Occupied == << {5, 8}, {5, 16}, {9, 16}, {5, 11}, {8, 11} >>
Asked == << { <<1, 1>>, <<1, 2>> },
            { <<1, 1>>, <<2, 1>>, <<2, 2>> },
            { <<1, 1>>, <<2, 1>>, <<2, 2>>, <<3, 1>>, <<3, 2>> },
            { <<1, 1>>, <<2, 1>>, <<3, 1>>, <<4, 1>>, <<4, 2>> },
            { <<1, 1>>, <<1, 2>>, <<2, 1>>, <<3, 1>>, <<4, 1>> } >>

(* What the contacts answer. *)
LEMMA Answers ==
  ASSUME configuration \in 1 .. 5, NEW z, z \in OnTheLoop \/ z = Away
  PROVE  /\ \A t \in {5, 8, 9, 11, 16} :
              status(t, z) = IF t \in Occupied[configuration] THEN 1 ELSE 0
         /\ status(4, z) = IF z \in OnTheLoop /\ ToGo(z) \in {0} \cup 32 .. 35
                           THEN 1 ELSE 0
<1>1. configuration \in {1, 2, 3, 4, 5}
  OBVIOUS
<1>2. ASSUME NEW t \in {5, 8, 9, 11, 16}
      PROVE  /\ \/ configurations[configuration].train \in ContactTiles(t)
                \/ configurations[configuration].wagon \in ContactTiles(t)
                <=> t \in Occupied[configuration]
             /\ ~(z.at > 0 /\ OuterLoop[z.at] \in ContactTiles(t))
  <2>1. t \in {5, 8, 9, 11, 16}
    OBVIOUS
  <2>2. \/ configurations[configuration].train \in ContactTiles(t)
        \/ configurations[configuration].wagon \in ContactTiles(t)
        <=> t \in Occupied[configuration]
    BY <1>1, <2>1 DEF configurations, ContactTiles, Occupied
  <2>3. ~(z.at > 0 /\ OuterLoop[z.at] \in ContactTiles(t))
    <3>1. CASE z = Away
      BY <3>1 DEF Away
    <3>2. CASE z \in OnTheLoop
      <4>1. z.at \in 1 .. 36
        BY <3>2 DEF OnTheLoop
      <4> QED  BY ONLY <2>1, <4>1, LoopTiles
    <3> QED  BY <3>1, <3>2
  <2> QED  BY <2>2, <2>3
<1>3. status(4, z) = IF z \in OnTheLoop /\ ToGo(z) \in {0} \cup 32 .. 35 THEN 1 ELSE 0
  <2>1. /\ configurations[configuration].train \notin ContactTiles(4)
        /\ configurations[configuration].wagon \notin ContactTiles(4)
    BY <1>1 DEF configurations, ContactTiles
  <2>2. z.at > 0 /\ OuterLoop[z.at] \in ContactTiles(4)
          <=> z \in OnTheLoop /\ ToGo(z) \in {0} \cup 32 .. 35
    <3>1. CASE z = Away
      BY <3>1, NotOff DEF Away
    <3>2. CASE z \in OnTheLoop
      <4>1. z.at \in 1 .. 36
        BY <3>2 DEF OnTheLoop
      <4>2. OuterLoop[z.at] \in ContactTiles(4) <=> z.at \in 4 .. 8
        BY ONLY <4>1, LoopTiles
      <4>3. z.at \in 4 .. 8 <=> ToGo(z) \in {0} \cup 32 .. 35
        BY ONLY <3>2, TilesToGo
      <4> QED  BY <3>2, <4>1, <4>2, <4>3
    <3> QED  BY <3>1, <3>2
  <2> QED  BY <2>1, <2>2 DEF status
<1> QED  BY <1>2, <1>3 DEF status

(* What an answer leads to, in each configuration. *)
LEMMA Questions ==
  ASSUME NEW c \in 1 .. 5, NEW p \in Asked[c]
  PROVE  LET t == tests[p[1]][p[2]] IN
         /\ p = <<p[1], p[2]>> /\ p[1] \in 1 .. 4 /\ p[2] \in 1 .. 2
         /\ t \in {5, 8, 9, 11, 16}
         /\ t \in Occupied[c] /\ p[2] = 1 => <<p[1], 2>> \in Asked[c]
         /\ t \in Occupied[c] /\ p[2] = 2 => p[1] = c /\ c \in 1 .. 4
         /\ t \notin Occupied[c] /\ p[1] < 4 => <<p[1] + 1, 1>> \in Asked[c]
         /\ t \notin Occupied[c] /\ p[1] = 4 => c = 5
<1>1. CASE c = 1
  BY <1>1 DEF Asked, Occupied, tests
<1>2. CASE c = 2
  BY <1>2 DEF Asked, Occupied, tests
<1>3. CASE c = 3
  BY <1>3 DEF Asked, Occupied, tests
<1>4. CASE c = 4
  BY <1>4 DEF Asked, Occupied, tests
<1>5. CASE c = 5
  BY <1>5 DEF Asked, Occupied, tests
<1> QED  BY <1>1, <1>2, <1>3, <1>4, <1>5

(* The Zamboni is looked for: n times it was not on the contact, and since *)
(* the last of them it has passed k tiles.                                 *)
Nearing(d, n, k) ==
  \E p \in 1 .. 31 - d * (n - 1) : ToGo(zamboni) = IF p >= k THEN p - k ELSE p - k + 36

(* The inductive invariant for such a timing: check_configuration asks what *)
(* the answers for the true configuration lead to, and the Zamboni comes    *)
(* nearer while it is looked for, without passing the contact.  Where it is *)
(* when the program begins does not matter, if it is not lost.              *)
FoundInv(d) ==
  /\ phase = "check" => probed \in Asked[configuration]
  /\ phase \in {"find", "pause"} => /\ configuration \in 1 .. 4
                                    /\ config_no = 10 * configuration
                                    /\ probed[1] \in 1 .. ZAMBONI_LOOP
  /\ phase = "pause" /\ show_zamboni => Nearing(d, probed[1], 0)
  /\ phase = "find" /\ show_zamboni /\ probed[1] > 1 =>
       \E q \in PauseTiles : IF ~cleared THEN Nearing(d, probed[1] - 1, q)
                             ELSE \E c \in CommandTiles : Nearing(d, probed[1] - 1, q + c)

PlaceInv(d) ==
  /\ phase \in {"off", "init", "check"} => config_no = 0
  /\ phase \in {"off", "init"} => probed = <<1, 1>>
  /\ zamboni # Lost => FoundInv(d)
  /\ ConfigurationIsRight

(* A step that lets the Zamboni pass k tiles leaves it on the loop. *)
LEMMA StaysOnTheLoop ==
  ASSUME SettingsRight, simulation_running,
         IF show_zamboni THEN zamboni \in OnTheLoop ELSE zamboni = Away,
         show_zamboni' = show_zamboni, NEW k \in 0 .. 5, zamboni_moves(k)
  PROVE  /\ IF show_zamboni' THEN zamboni' \in OnTheLoop ELSE zamboni' = Away
         /\ show_zamboni =>
              ToGo(zamboni') = IF ToGo(zamboni) >= k THEN ToGo(zamboni) - k
                               ELSE ToGo(zamboni) - k + 36
<1>1. CASE show_zamboni
  BY <1>1, LoopIsClosed, ZamboniPasses
<1>2. CASE ~show_zamboni
  BY <1>2 DEF zamboni_moves
<1> QED  BY <1>1, <1>2

(* What there is to know of a Zamboni that is not lost. *)
LEMMA NotLost ==
  ASSUME RouteInv, CommandInv, zamboni # Lost
  PROVE  /\ simulation_running
         /\ IF show_zamboni THEN zamboni \in OnTheLoop ELSE zamboni = Away
         /\ phase \in {"check", "find", "pause"} => SettingsRight
         /\ configuration \in 0 .. 5 /\ (phase # "off" => configuration \in 1 .. 5)
BY DEF RouteInv, CommandInv

(* j tiles more within one turn. *)
LEMMA NearsOn ==
  ASSUME NEW d \in 1 .. 5, NEW n \in Int, NEW k \in 0 .. 5, NEW j \in 0 .. 5, k + j <= 5,
         zamboni \in OnTheLoop, Nearing(d, n, k), n >= 1,
         ToGo(zamboni') = IF ToGo(zamboni) >= j THEN ToGo(zamboni) - j
                          ELSE ToGo(zamboni) - j + 36
  PROVE  Nearing(d, n, k + j)'
<1>1. d * (n - 1) \in Int /\ d * (n - 1) >= 0
  <2>1. d \in {1, 2, 3, 4, 5}
    OBVIOUS
  <2> QED  BY <2>1
<1>2. PICK p \in 1 .. 31 - d * (n - 1) :
           ToGo(zamboni) = IF p >= k THEN p - k ELSE p - k + 36
  BY DEF Nearing
<1>3. p \in 1 .. 31
  BY <1>1, <1>2
<1>4. ToGo(zamboni') = IF p >= k + j THEN p - (k + j) ELSE p - (k + j) + 36
  BY <1>2, <1>3
<1> QED  BY <1>2, <1>4 DEF Nearing

(* It cannot pass the contact between two questions, and each turn brings  *)
(* it d tiles nearer at least.                                             *)
LEMMA NotFoundYet ==
  ASSUME NEW d \in 1 .. 5, NEW n \in Int, NEW k \in 0 .. 5, n >= 1,
         zamboni' \in OnTheLoop, Nearing(d, n, k)', k >= d,
         ToGo(zamboni') \notin {0} \cup 32 .. 35
  PROVE  Nearing(d, n + 1, 0)'
<1>1. /\ d * (n - 1) \in Int /\ d * (n - 1) >= 0
      /\ d * ((n + 1) - 1) = d * (n - 1) + d
  <2>1. d \in {1, 2, 3, 4, 5}
    OBVIOUS
  <2> QED  BY <2>1
<1>2. PICK p \in 1 .. 31 - d * (n - 1) :
           ToGo(zamboni') = IF p >= k THEN p - k ELSE p - k + 36
  BY DEF Nearing
<1>3. p \in 1 .. 31
  BY <1>1, <1>2
<1>4. p - k \in 1 .. 31 - d * ((n + 1) - 1) /\ ToGo(zamboni') = p - k
  BY <1>1, <1>2, <1>3
<1>5. /\ p - k >= 0 /\ p - k - 0 = p - k
      /\ ToGo(zamboni') = IF p - k >= 0 THEN p - k - 0 ELSE p - k - 0 + 36
  BY <1>3, <1>4
<1>6. ASSUME NEW r \in 1 .. 31 - d * ((n + 1) - 1),
             ToGo(zamboni') = IF r >= 0 THEN r - 0 ELSE r - 0 + 36
      PROVE  Nearing(d, n + 1, 0)'
  BY ONLY <1>6, r \in 1 .. 31 - d * ((n + 1) - 1) DEF Nearing
<1> QED  BY ONLY <1>4, <1>5, <1>6

(* After the first question. *)
LEMMA NotThereAtFirst ==
  ASSUME NEW d \in 1 .. 5, zamboni' \in OnTheLoop, ToGo(zamboni') \notin {0} \cup 32 .. 35
  PROVE  Nearing(d, 1, 0)'
<1>1. ToGo(zamboni') \in 1 .. 31 /\ d * (1 - 1) = 0
  BY TilesToGo
<1> QED  BY <1>1 DEF Nearing

(* One lemma for each action. *)
LEMMA PlaceOff ==
  ASSUME NEW d \in 1 .. 5, PlaceInv(d), simulator_is_reset \/ zamboni_runs \/ init_train
  PROVE  PlaceInv(d)'
<1>1. /\ phase = "off" /\ phase' \in {"off", "init"} /\ UNCHANGED <<config_no, probed>>
  BY DEF simulator_is_reset, zamboni_runs, init_train, trainVars
<1> QED  BY <1>1 DEF PlaceInv, FoundInv, ConfigurationIsRight

LEMMA PlaceSendCommand ==
  ASSUME NEW d \in 1 .. 5, PlaceInv(d), send_command
  PROVE  PlaceInv(d)'
<1>1. /\ phase \in {"init", "run"} /\ UNCHANGED <<phase, probed, config_no>>
      /\ UNCHANGED <<configuration, show_zamboni>>
      /\ phase = "run" => zamboni' = zamboni
  BY DEF send_command, process_train_command, time_passes
<1> QED  BY <1>1 DEF PlaceInv, FoundInv, ConfigurationIsRight

(* What is known in the others, when the Zamboni is not lost after it. *)
LEMMA NotLostBefore ==
  ASSUME clear_memory_buffer \/ probe_contact \/ pause_ends, RouteInv, CommandInv,
         zamboni' # Lost
  PROVE  /\ zamboni # Lost /\ simulation_running
         /\ IF show_zamboni THEN zamboni \in OnTheLoop ELSE zamboni = Away
         /\ phase \in {"check", "find", "pause"} => SettingsRight
         /\ configuration \in 1 .. 5
<1>1. phase # "off"
  BY DEF clear_memory_buffer, probe_contact, pause_ends, Probing
<1>2. zamboni = Lost => zamboni' = Lost
  BY StaysAway DEF clear_memory_buffer, probe_contact, pause_ends
<1> QED  BY <1>1, <1>2, NotLost

LEMMA PlaceClearMemoryBuffer ==
  ASSUME NEW d \in 1 .. 5, Paced(d), PlaceInv(d), RouteInv, CommandInv, clear_memory_buffer
  PROVE  PlaceInv(d)'
<1>1. /\ Probing /\ ~cleared /\ cleared' = TRUE /\ time_passes
      /\ UNCHANGED <<phase, script, probed, config_no, configuration, show_zamboni>>
      /\ phase \in {"check", "find", "run"}
  BY DEF clear_memory_buffer, process_train_command, Probing
<1>2. CASE phase = "run" \/ zamboni' = Lost
  <2>1. zamboni' = zamboni \/ zamboni' = Lost
    BY <1>1, <1>2 DEF time_passes
  <2> QED  BY <1>1, <1>2, <2>1 DEF PlaceInv, FoundInv, ConfigurationIsRight
<1>3. CASE phase \in {"check", "find"} /\ zamboni' # Lost
  <2>1. PICK c \in CommandTiles : zamboni_moves(c)
    BY <1>1, <1>3 DEF time_passes
  <2>2. c \in 0 .. 5
    BY DEF Paced
  <2>3. /\ SettingsRight /\ simulation_running /\ FoundInv(d)
        /\ IF show_zamboni THEN zamboni \in OnTheLoop ELSE zamboni = Away
    BY <1>3, NotLostBefore DEF PlaceInv
  <2>4. /\ IF show_zamboni' THEN zamboni' \in OnTheLoop ELSE zamboni' = Away
        /\ show_zamboni =>
             ToGo(zamboni') = IF ToGo(zamboni) >= c THEN ToGo(zamboni) - c
                              ELSE ToGo(zamboni) - c + 36
    BY <1>1, <2>1, <2>2, <2>3, StaysOnTheLoop
  <2>5. ASSUME phase = "find", show_zamboni, probed[1] > 1
        PROVE  \E q \in PauseTiles :
                 \E c1 \in CommandTiles : Nearing(d, probed[1] - 1, q + c1)'
    <3>1. PICK q \in PauseTiles : Nearing(d, probed[1] - 1, q)
      BY <1>1, <2>3, <2>5 DEF FoundInv
    <3>2. q \in 0 .. 5 /\ q + c <= 5
      BY <2>2 DEF Paced
    <3>3. probed[1] - 1 \in Int /\ probed[1] - 1 >= 1
      BY <2>3, <2>5, TrainAssumption DEF FoundInv
    <3>4. Nearing(d, probed[1] - 1, q + c)'
      BY <1>1, <2>2, <2>3, <2>4, <2>5, <3>1, <3>2, <3>3, NearsOn
    <3> QED  BY <3>4
  <2>6. FoundInv(d)'
    BY <1>1, <1>3, <2>3, <2>5 DEF FoundInv
  <2> QED  BY <1>1, <1>3, <2>6 DEF PlaceInv, ConfigurationIsRight
<1> QED  BY <1>1, <1>2, <1>3

LEMMA PlacePauseEnds ==
  ASSUME NEW d \in 1 .. 5, Paced(d), PlaceInv(d), RouteInv, CommandInv, pause_ends,
         zamboni' # Lost
  PROVE  PlaceInv(d)'
<1>1. /\ phase = "pause" /\ ~cleared
      /\ UNCHANGED <<configuration, show_zamboni, cleared>>
      /\ SettingsRight /\ simulation_running /\ FoundInv(d)
      /\ IF show_zamboni THEN zamboni \in OnTheLoop ELSE zamboni = Away
  BY NotLostBefore DEF pause_ends, CommandInv, Probing, PlaceInv
<1>2. PICK q \in PauseTiles : zamboni_moves(q)
  BY DEF pause_ends
<1>3. q \in 0 .. 5
  BY DEF Paced
<1>4. /\ configuration \in 1 .. 4 /\ config_no = 10 * configuration
      /\ probed[1] \in 1 .. ZAMBONI_LOOP /\ ZAMBONI_LOOP \in Nat
      /\ show_zamboni => Nearing(d, probed[1], 0)
  BY <1>1, TrainAssumption DEF FoundInv
<1>5. /\ IF show_zamboni' THEN zamboni' \in OnTheLoop ELSE zamboni' = Away
      /\ show_zamboni =>
           ToGo(zamboni') = IF ToGo(zamboni) >= q THEN ToGo(zamboni) - q
                            ELSE ToGo(zamboni) - q + 36
  BY <1>1, <1>2, <1>3, StaysOnTheLoop
<1> DEFINE n == probed[1]
<1>7. PICK m \in Int : m = n /\ (show_zamboni => Nearing(d, m, q)')
  <2>1. PICK m \in Int : m = n /\ m >= 1
    BY <1>4
  <2>2. ASSUME show_zamboni PROVE Nearing(d, m, 0 + q)'
    BY <1>1, <1>3, <1>4, <1>5, <2>1, <2>2, NearsOn
  <2>3. 0 + q = q
    BY <1>3
  <2> QED  BY <2>1, <2>2, <2>3
<1>8. CASE /\ probed[1] < ZAMBONI_LOOP /\ probed' = <<probed[1] + 1, 1>>
           /\ phase' = "find" /\ UNCHANGED <<config_no, script>>
  <2>1. /\ probed'[1] \in 1 .. ZAMBONI_LOOP /\ probed'[1] - 1 = m
    BY <1>4, <1>7, <1>8
  <2>2. show_zamboni => Nearing(d, probed[1] - 1, q)'
    BY <1>7, <2>1
  <2> QED  BY <1>1, <1>4, <1>8, <2>1, <2>2 DEF PlaceInv, FoundInv, ConfigurationIsRight
<1>9. CASE probed[1] = ZAMBONI_LOOP /\ run_script(config_no) /\ UNCHANGED probed
  <2>1. ~show_zamboni
    <3>1. SUFFICES ASSUME show_zamboni PROVE FALSE
      OBVIOUS
    <3>2. d * (probed[1] - 1) > 30 /\ d * (probed[1] - 1) \in Int
      <4>1. d \in {1, 2, 3, 4, 5}
        OBVIOUS
      <4>2. d * (probed[1] - 1) \in Int
        BY <1>4, <4>1
      <4> QED  BY <1>9, <4>2 DEF Paced
    <3> QED  BY <1>4, <3>1, <3>2 DEF Nearing
  <2> QED  BY <1>1, <1>4, <1>9, <2>1 DEF PlaceInv, FoundInv, ConfigurationIsRight, run_script
<1> QED  BY <1>8, <1>9 DEF pause_ends

LEMMA PlaceProbeContact ==
  ASSUME NEW d \in 1 .. 5, Paced(d), PlaceInv(d), RouteInv, CommandInv, probe_contact,
         zamboni' # Lost
  PROVE  PlaceInv(d)'
<1>0. simulation_running'
  <2>1. simulation_running
    BY NotLostBefore
  <2> QED  BY <2>1, ProbeContactInv
<1>1. /\ Probing /\ cleared /\ cleared' = FALSE /\ time_passes
      /\ UNCHANGED <<configuration, show_zamboni>>
      /\ phase \in {"check", "find", "run"} /\ configuration \in 1 .. 5
      /\ FoundInv(d)
  BY <1>0, NotLostBefore DEF probe_contact, process_train_command, Probing, PlaceInv
<1>2. PICK answer \in IF phase = "run" THEN {0, 1} ELSE {status(Contact, zamboni')} :
        check_configuration(answer) \/ find_zamboni(answer) \/ keep_probing(answer)
  BY <1>0 DEF probe_contact
<1>3. CASE phase = "run"
  <2>1. /\ zamboni' = zamboni /\ UNCHANGED <<phase, config_no, probed>>
    BY <1>1, <1>2, <1>3 DEF time_passes, check_configuration, find_zamboni, keep_probing
  <2> QED  BY <1>1, <1>3, <2>1 DEF PlaceInv, FoundInv, ConfigurationIsRight
<1>4. ASSUME phase \in {"check", "find"}
      PROVE  /\ IF show_zamboni' THEN zamboni' \in OnTheLoop ELSE zamboni' = Away
             /\ \E c \in CommandTiles :
                  /\ c \in 0 .. 5
                  /\ show_zamboni =>
                       /\ zamboni \in OnTheLoop
                       /\ ToGo(zamboni') = IF ToGo(zamboni) >= c THEN ToGo(zamboni) - c
                                           ELSE ToGo(zamboni) - c + 36
  <2>1. PICK c \in CommandTiles : zamboni_moves(c)
    BY <1>1, <1>4 DEF time_passes
  <2>2. c \in 0 .. 5
    BY DEF Paced
  <2>3. /\ SettingsRight /\ simulation_running
        /\ IF show_zamboni THEN zamboni \in OnTheLoop ELSE zamboni = Away
    BY <1>4, NotLostBefore
  <2>4. /\ IF show_zamboni' THEN zamboni' \in OnTheLoop ELSE zamboni' = Away
        /\ show_zamboni =>
             ToGo(zamboni') = IF ToGo(zamboni) >= c THEN ToGo(zamboni) - c
                              ELSE ToGo(zamboni) - c + 36
    BY <1>1, <2>1, <2>2, <2>3, StaysOnTheLoop
  <2> QED  BY <2>2, <2>3, <2>4
<1>5. CASE phase = "check"
  <2> DEFINE t == tests[probed[1]][probed[2]]
             known == t \in Occupied[configuration]
  <2>1. /\ probed \in Asked[configuration] /\ config_no = 0
        /\ check_configuration(answer) /\ answer = status(t, zamboni')
    BY <1>1, <1>2, <1>5 DEF PlaceInv, FoundInv, Contact, find_zamboni, keep_probing
  <2>2. /\ probed = <<probed[1], probed[2]>> /\ probed[1] \in 1 .. 4 /\ probed[2] \in 1 .. 2
        /\ t \in {5, 8, 9, 11, 16}
        /\ known /\ probed[2] = 1 => <<probed[1], 2>> \in Asked[configuration]
        /\ known /\ probed[2] = 2 => probed[1] = configuration /\ configuration \in 1 .. 4
        /\ ~known /\ probed[1] < 4 => <<probed[1] + 1, 1>> \in Asked[configuration]
        /\ ~known /\ probed[1] = 4 => configuration = 5
    BY ONLY <1>1, <2>1, Questions
  <2>3. answer = IF known THEN 1 ELSE 0
    <3>1. zamboni' \in OnTheLoop \/ zamboni' = Away
      BY <1>4, <1>5
    <3> QED  BY ONLY <1>1, <2>1, <2>2, <3>1, Answers
  <2> HIDE DEF t, known
  <2>4. Len(tests) = 4
    BY DEF tests
  <2>6. CASE /\ answer = 1 /\ probed[2] = 1 /\ probed' = <<probed[1], 2>>
             /\ UNCHANGED <<phase, config_no, script>>
    BY <1>1, <1>5, <2>1, <2>2, <2>3, <2>6 DEF PlaceInv, FoundInv, ConfigurationIsRight
  <2>7. CASE /\ answer = 1 /\ probed[2] = 2
             /\ phase' = "find" /\ config_no' = 10 * probed[1] /\ probed' = <<1, 1>>
    <3>1. 1 \in 1 .. ZAMBONI_LOOP
      <4>1. d \in {1, 2, 3, 4, 5} /\ ZAMBONI_LOOP \in Nat /\ d * (ZAMBONI_LOOP - 1) > 30
        BY TrainAssumption DEF Paced
      <4> QED  BY <4>1
    <3>2. /\ configuration' \in 1 .. 4 /\ config_no' = 10 * configuration'
          /\ probed'[1] = 1
      BY <1>1, <2>2, <2>3, <2>7
    <3> QED  BY <1>1, <2>7, <3>1, <3>2 DEF PlaceInv, FoundInv, ConfigurationIsRight
  <2>8. CASE /\ answer = 0 /\ probed[1] < 4 /\ probed' = <<probed[1] + 1, 1>>
             /\ UNCHANGED <<phase, config_no, script>>
    BY <1>1, <1>5, <2>1, <2>2, <2>3, <2>8 DEF PlaceInv, FoundInv, ConfigurationIsRight
  <2>9. CASE answer = 0 /\ probed[1] = 4 /\ run_script(0)
    BY <1>1, <2>2, <2>3, <2>9 DEF PlaceInv, FoundInv, ConfigurationIsRight, run_script
  <2> QED  BY <2>1, <2>4, <2>6, <2>7, <2>8, <2>9 DEF check_configuration
<1>6. CASE phase = "find"
  <2>1. /\ configuration \in 1 .. 4 /\ config_no = 10 * configuration
        /\ probed[1] \in 1 .. ZAMBONI_LOOP /\ ZAMBONI_LOOP \in Nat
        /\ show_zamboni /\ probed[1] > 1 =>
             \E q \in PauseTiles : \E c \in CommandTiles : Nearing(d, probed[1] - 1, q + c)
    BY <1>1, <1>6, TrainAssumption DEF FoundInv
  <2>2. IF show_zamboni' THEN zamboni' \in OnTheLoop ELSE zamboni' = Away
    BY <1>4, <1>6
  <2>3. /\ find_zamboni(answer)
        /\ answer = IF zamboni' \in OnTheLoop /\ ToGo(zamboni') \in {0} \cup 32 .. 35
                    THEN 1 ELSE 0
    <3>1. find_zamboni(answer) /\ answer = status(4, zamboni')
      BY <1>2, <1>6 DEF Contact, check_configuration, keep_probing
    <3>2. zamboni' \in OnTheLoop \/ zamboni' = Away
      BY <2>2
    <3> QED  BY ONLY <1>1, <3>1, <3>2, Answers
  <2>4. CASE answer = 1 /\ run_script(config_no + 1) /\ UNCHANGED probed
    <3>1. show_zamboni
      BY <1>1, <2>2, <2>3, <2>4, NotOff
    <3> QED  BY <1>1, <2>1, <2>4, <3>1 DEF PlaceInv, FoundInv, ConfigurationIsRight, run_script
  <2>5. CASE /\ answer = 0 /\ phase' = "pause"
             /\ UNCHANGED <<config_no, script, probed>>
    <3>1. PICK n \in Int : n = probed[1] /\ n >= 1
      BY <2>1
    <3>2. ASSUME show_zamboni PROVE Nearing(d, n, 0)'
      <4>1. zamboni' \in OnTheLoop /\ ToGo(zamboni') \notin {0} \cup 32 .. 35
        BY <1>1, <2>2, <2>3, <2>5, <3>2
      <4>2. CASE n = 1
        BY <4>1, <4>2, NotThereAtFirst
      <4>3. CASE n > 1
        <5>1. PICK q \in PauseTiles, c1 \in CommandTiles : Nearing(d, n - 1, q + c1)
          BY <2>1, <3>1, <3>2, <4>3
        <5>2. PICK c2 \in CommandTiles :
                /\ c2 \in 0 .. 5
                /\ zamboni \in OnTheLoop
                /\ ToGo(zamboni') = IF ToGo(zamboni) >= c2 THEN ToGo(zamboni) - c2
                                    ELSE ToGo(zamboni) - c2 + 36
          BY <1>4, <1>6, <3>2
        <5>3. /\ q \in 0 .. 5 /\ c1 \in 0 .. 5 /\ q + c1 \in 0 .. 5
              /\ q + c1 + c2 \in d .. 5 /\ n - 1 \in Int /\ n - 1 >= 1
          <6>1. c1 + c2 + q \in d .. 5 /\ q \in 0 .. 5 /\ c1 \in 0 .. 5
            BY DEF Paced
          <6> QED  BY <3>1, <4>3, <5>2, <6>1
        <5>4. Nearing(d, n - 1, q + c1 + c2)'
          BY <5>1, <5>2, <5>3, NearsOn
        <5>5. q + c1 + c2 \in 0 .. 5 /\ q + c1 + c2 >= d
          BY <5>3
        <5>6. Nearing(d, n - 1 + 1, 0)'
          BY <4>1, <5>3, <5>4, <5>5, NotFoundYet
        <5> QED  BY <3>1, <5>6
      <4> QED  BY <3>1, <4>2, <4>3
    <3>3. show_zamboni' => Nearing(d, probed[1], 0)'
      BY <1>1, <2>5, <3>1, <3>2
    <3> QED  BY <1>1, <2>1, <2>5, <3>3 DEF PlaceInv, FoundInv, ConfigurationIsRight
  <2> QED  BY <2>3, <2>4, <2>5 DEF find_zamboni
<1> QED  BY <1>1, <1>3, <1>5, <1>6

(* When the Zamboni is lost, only these facts matter. *)
LEMMA PlaceWhenLost ==
  ASSUME NEW d \in 1 .. 5, PlaceInv(d), probe_contact \/ pause_ends, zamboni' = Lost
  PROVE  PlaceInv(d)'
<1>1. /\ phase' \notin {"off", "init"}
      /\ phase' = "check" => phase = "check" /\ config_no' = config_no
  BY DEF probe_contact, Probing, check_configuration, find_zamboni, keep_probing,
     pause_ends, run_script, trainVars
<1> QED  BY <1>1 DEF PlaceInv, ConfigurationIsRight

LEMMA PlaceOtherSteps ==
  ASSUME NEW d \in 1 .. 5, PlaceInv(d), RouteInv, CommandInv,
         zamboni_aborts \/ end_of_script \/ UNCHANGED <<trackVars, trainVars>>
  PROVE  PlaceInv(d)'
<1>1. CASE UNCHANGED <<trackVars, trainVars>>
  BY <1>1 DEF PlaceInv, FoundInv, ConfigurationIsRight, Nearing, trackVars, trainVars
<1>2. CASE zamboni_aborts
  BY <1>2 DEF zamboni_aborts, abort_simulation, PlaceInv, ConfigurationIsRight, trainVars
<1>3. CASE end_of_script
  <2>1. /\ script = << >> /\ phase \in {"init", "run"}
        /\ phase' = IF phase = "init" THEN "check" ELSE "done"
        /\ UNCHANGED <<configuration, show_zamboni, zamboni, probed, config_no>>
    BY <1>3 DEF end_of_script, trackVars
  <2>2. ASSUME phase = "init" PROVE probed \in Asked[configuration]
    <3>1. probed = <<1, 1>> /\ configuration \in {1, 2, 3, 4, 5}
      BY <2>2 DEF PlaceInv, CommandInv
    <3> QED  BY <3>1 DEF Asked
  <2> QED  BY <2>1, <2>2 DEF PlaceInv, FoundInv, ConfigurationIsRight
<1> QED  BY <1>1, <1>2, <1>3

LEMMA PlacesHold ==
  ASSUME NEW d \in 1 .. 5, Paced(d)
  PROVE  TrainSpec => []PlaceInv(d)
<1>1. TrainInit => PlaceInv(d)
  <2> SUFFICES ASSUME TrainInit PROVE PlaceInv(d)
    OBVIOUS
  <2>1. /\ phase = "off" /\ config_no = 0 /\ probed = <<1, 1>>
    BY DEF TrainInit, TrackInit
  <2> QED  BY <2>1 DEF PlaceInv, FoundInv, ConfigurationIsRight
<1>2. PlaceInv(d) /\ RouteInv /\ CommandInv /\ [TrainNext]_<<trackVars, trainVars>>
        => PlaceInv(d)'
  <2> SUFFICES ASSUME PlaceInv(d), RouteInv, CommandInv,
                      [TrainNext]_<<trackVars, trainVars>>
               PROVE  PlaceInv(d)'
    OBVIOUS
  <2> QED  BY PlaceOff, PlaceSendCommand, PlaceClearMemoryBuffer, PlacePauseEnds,
              PlaceProbeContact, PlaceWhenLost, PlaceOtherSteps DEF TrainNext, train_loops
<1> QED  BY <1>1, <1>2, RouteHolds, CommandsInOrder, PTL DEF TrainSpec

(* With such a timing check_configuration and find_zamboni of train.c       *)
(* find out what is on the track, and run_train runs the script for it:     *)
(* the tests tell the configurations apart, and a Zamboni that goes round   *)
(* is on the contact at one of the questions, though it moves between them  *)
(* and wherever it was when the program began.  A Zamboni that a switch has *)
(* led off the loop before is the exception.                                *)
THEOREM RightScriptRuns ==
  ASSUME Timely
  PROVE  TrainSpec => []ConfigurationIsRight
<1>1. PICK d \in 1 .. 5 : Paced(d)
  BY DEF Timely
<1>2. PlaceInv(d) => ConfigurationIsRight
  BY DEF PlaceInv
<1>3. TrainSpec => []PlaceInv(d)
  BY <1>1, PlacesHold
<1> QED  BY <1>2, <1>3, PTL

=============================================================================
