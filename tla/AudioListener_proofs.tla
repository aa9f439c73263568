-------------------------- MODULE AudioListener_proofs --------------------------
(***************************************************************************)
(* Proofs about the caller's side of AudioSession: whatever the agent says *)
(* and whoever reads the incoming queue meanwhile, no chunk of the caller  *)
(* is lost and none comes twice before the agent listens.                  *)
(***************************************************************************)
EXTENDS AudioSession_proofs

USE AudioAssumption DEF AudioAssumption

-----------------------------------------------------------------------------
(* The chunks in a queue, the sentinel aside.                              *)

Chunks(q) == {q[i] : i \in 1..Len(q)} \ {CLOSED}
Distinct(q) == \A i, j \in 1..Len(q) : q[i] = q[j] /\ q[i] # CLOSED => i = j

(* A chunk pushed joins them; it comes once if it was not there.           *)
LEMMA PushedChunk ==
    ASSUME NEW q \in Seq(Nat), NEW e \in Nat
    PROVE  /\ Chunks(Append(q, e)) = Chunks(q) \cup ({e} \ {CLOSED})
           /\ Distinct(q) /\ e \notin Chunks(q) => Distinct(Append(q, e))
  <1> DEFINE r == Append(q, e)
  <1>1. /\ r \in Seq(Nat) /\ Len(r) = Len(q) + 1 /\ Len(q) \in Nat /\ r[Len(q) + 1] = e
        /\ \A i \in 1..Len(q) : r[i] = q[i]
    OBVIOUS
  <1>2. \A i \in 1..Len(r) : i \in 1..Len(q) \/ i = Len(q) + 1
    BY <1>1
  <1>3. \A i \in 1..Len(q) : i \in 1..Len(r)
    BY <1>1
  <1>4. Len(q) + 1 \in 1..Len(r)
    BY <1>1
  <1> HIDE DEF r
  <1>5. Chunks(r) = Chunks(q) \cup ({e} \ {CLOSED})
    <2>1. ASSUME NEW c \in Chunks(r) PROVE c \in Chunks(q) \cup ({e} \ {CLOSED})
      BY <1>1, <1>2, <2>1 DEF Chunks
    <2>2. ASSUME NEW c \in Chunks(q) PROVE c \in Chunks(r)
      BY <1>1, <1>3, <2>2 DEF Chunks
    <2>3. e # CLOSED => e \in Chunks(r)
      BY <1>1, <1>4 DEF Chunks
    <2> QED BY <2>1, <2>2, <2>3
  <1>6. ASSUME Distinct(q), e \notin Chunks(q) PROVE Distinct(r)
    <2> SUFFICES ASSUME NEW i \in 1..Len(r), NEW j \in 1..Len(r), r[i] = r[j], r[i] # CLOSED
                 PROVE  i = j
      BY DEF Distinct
    <2>1. CASE i \in 1..Len(q) /\ j \in 1..Len(q)
      BY <1>1, <1>6, <2>1 DEF Distinct
    <2>2. \A k \in 1..Len(q) : r[k] # CLOSED => r[k] # e
      BY <1>1, <1>6 DEF Chunks
    <2> QED BY <1>1, <1>2, <2>1, <2>2
  <1> QED BY <1>5, <1>6 DEF r

(* The chunk taken leaves them, and is not there a second time.            *)
LEMMA TakenChunk ==
    ASSUME NEW q \in Seq(Nat), q # <<>>
    PROVE  /\ Chunks(q) = Chunks(Tail(q)) \cup ({Head(q)} \ {CLOSED})
           /\ Distinct(q) => Distinct(Tail(q)) /\ Head(q) \notin Chunks(Tail(q))
  <1> DEFINE r == Tail(q)
  <1>1. /\ r \in Seq(Nat) /\ Len(r) = Len(q) - 1 /\ Len(q) \in Nat \ {0} /\ Head(q) = q[1]
        /\ \A i \in 1..Len(r) : r[i] = q[i + 1]
    OBVIOUS
  <1>2. /\ \A i \in 1..Len(r) : i + 1 \in 1..Len(q) /\ i + 1 # 1
        /\ \A i \in 1..Len(q) : i = 1 \/ (i - 1 \in 1..Len(r) /\ i = (i - 1) + 1)
        /\ 1 \in 1..Len(q)
    BY <1>1
  <1> HIDE DEF r
  <1>3. Chunks(q) = Chunks(r) \cup ({Head(q)} \ {CLOSED})
    <2>1. ASSUME NEW i \in 1..Len(q), q[i] # CLOSED
          PROVE  q[i] \in Chunks(r) \cup ({Head(q)} \ {CLOSED})
      <3>1. CASE i = 1
        BY <1>1, <2>1, <3>1
      <3>2. CASE i # 1
        <4>1. i - 1 \in 1..Len(r) /\ r[i - 1] = q[i]
          BY <1>1, <1>2, <3>2
        <4> QED BY <2>1, <4>1 DEF Chunks
      <3> QED BY <3>1, <3>2
    <2>2. ASSUME NEW i \in 1..Len(r), r[i] # CLOSED PROVE r[i] \in Chunks(q)
      BY <1>1, <1>2, <2>2, ZenonT(60) DEF Chunks
    <2>3. Head(q) # CLOSED => Head(q) \in Chunks(q)
      BY <1>1, <1>2 DEF Chunks
    <2> QED BY <2>1, <2>2, <2>3 DEF Chunks
  <1>4. ASSUME Distinct(q) PROVE Distinct(r) /\ Head(q) \notin Chunks(r)
    <2>1. ASSUME NEW i \in 1..Len(r), NEW j \in 1..Len(r), r[i] = r[j], r[i] # CLOSED PROVE i = j
      <3>1. i + 1 \in 1..Len(q) /\ j + 1 \in 1..Len(q)
        BY <1>2
      <3>2. q[i + 1] = q[j + 1] /\ q[i + 1] # CLOSED
        BY <1>1, <2>1
      <3>3. i + 1 = j + 1
        BY <1>4, <3>1, <3>2 DEF Distinct
      <3> QED BY <3>3
    <2>2. ASSUME NEW i \in 1..Len(r), r[i] # CLOSED PROVE r[i] # Head(q)
      BY <1>1, <1>2, <1>4, <2>2, SMTT(30) DEF Distinct
    <2> QED BY <2>1, <2>2 DEF Distinct, Chunks
  <1> QED BY <1>3, <1>4 DEF r

(* What is pushed back joins them likewise.                                *)
LEMMA RepushedChunks ==
    ASSUME NEW q \in Seq(Nat), NEW b \in Seq(Nat)
    PROVE  /\ Chunks(q \o b) = Chunks(q) \cup Chunks(b)
           /\ Distinct(q) /\ Distinct(b) /\ Chunks(q) \cap Chunks(b) = {} => Distinct(q \o b)
  <1> DEFINE r == q \o b
  <1>1. /\ r \in Seq(Nat) /\ Len(r) = Len(q) + Len(b) /\ Len(q) \in Nat /\ Len(b) \in Nat
        /\ \A i \in 1..Len(r) : r[i] = IF i <= Len(q) THEN q[i] ELSE b[i - Len(q)]
    BY ConcatProperties
  <1>2. /\ \A i \in 1..Len(q) : i \in 1..Len(r) /\ r[i] = q[i]
        /\ \A i \in 1..Len(b) : i + Len(q) \in 1..Len(r) /\ r[i + Len(q)] = b[i]
        /\ \A i \in 1..Len(r) : \/ i \in 1..Len(q)
                                \/ i - Len(q) \in 1..Len(b) /\ r[i] = b[i - Len(q)]
    BY <1>1
  <1> HIDE DEF r
  <1>3. Chunks(r) = Chunks(q) \cup Chunks(b)
    <2>1. \A i \in 1..Len(r) : r[i] # CLOSED => r[i] \in Chunks(q) \cup Chunks(b)
      BY <1>2 DEF Chunks
    <2>2. \A i \in 1..Len(q) : q[i] # CLOSED => q[i] \in Chunks(r)
      BY <1>2 DEF Chunks
    <2>3. \A i \in 1..Len(b) : b[i] # CLOSED => b[i] \in Chunks(r)
      BY <1>2 DEF Chunks
    <2> QED BY <2>1, <2>2, <2>3, ZenonT(60) DEF Chunks
  <1>4. ASSUME Distinct(q), Distinct(b), Chunks(q) \cap Chunks(b) = {} PROVE Distinct(r)
    <2> SUFFICES ASSUME NEW i \in 1..Len(r), NEW j \in 1..Len(r), r[i] = r[j], r[i] # CLOSED
                 PROVE  i = j
      BY DEF Distinct
    <2>1. CASE i \in 1..Len(q) /\ j \in 1..Len(q)
      BY <1>2, <1>4, <2>1 DEF Distinct
    <2>2. CASE i \notin 1..Len(q) /\ j \notin 1..Len(q)
      <3>1. i - Len(q) = j - Len(q)
        BY <1>2, <1>4, <2>2, ZenonT(40) DEF Distinct
      <3> QED BY <1>1, <3>1
    <2>3. ASSUME NEW k \in 1..Len(q), NEW l \in 1..Len(r), l \notin 1..Len(q), r[k] # CLOSED
          PROVE  r[k] # r[l]
      <3>1. r[k] \in Chunks(q)
        BY <1>2, <2>3 DEF Chunks
      <3>2. r[l] # CLOSED => r[l] \in Chunks(b)
        BY <1>2, <2>3 DEF Chunks
      <3> QED BY <1>4, <2>3, <3>1, <3>2
    <2> QED BY <2>1, <2>2, <2>3
  <1> QED BY <1>3, <1>4 DEF r

(* As many places of a queue hold a chunk as there are chunks in it.       *)
LEMMA CountedChunks ==
    ASSUME NEW q \in Seq(Nat), Distinct(q)
    PROVE  LET places == {i \in 1..Len(q) : q[i] # CLOSED}
           IN  /\ IsFiniteSet(Chunks(q))
               /\ Cardinality(places) = Cardinality(Chunks(q))
               /\ {q[i] : i \in places} = Chunks(q)
  <1> DEFINE places == {i \in 1..Len(q) : q[i] # CLOSED}
             f == [i \in places |-> q[i]]
  <1>1. IsFiniteSet(places)
    <2>1. IsFiniteSet(1..Len(q))
      BY FS_Interval
    <2> QED BY <2>1, FS_Subset
  <1>2. {q[i] : i \in places} = Chunks(q)
    BY DEF Chunks
  <1>3. f \in Surjection(places, Chunks(q))
    BY <1>2 DEF Surjection
  <1>4. f \in Injection(places, Chunks(q))
    <2>1. f \in [places -> Chunks(q)]
      BY <1>2
    <2>2. \A i, j \in places : f[i] = f[j] => i = j
      BY DEF Distinct
    <2> QED BY <2>1, <2>2 DEF Injection, IsInjective
  <1> QED BY <1>1, <1>2, <1>3, <1>4, FS_Surjection

-----------------------------------------------------------------------------
(* Heard, in the queue, or in the hands of the barge-in task.              *)

(* The first n chunks are in h, q and b, each in one of them and once.     *)
Once(n, h, q, b) ==
    /\ h \cup Chunks(q) \cup Chunks(b) = 1..n
    /\ h \cap Chunks(q) = {} /\ h \cap Chunks(b) = {} /\ Chunks(q) \cap Chunks(b) = {}
    /\ Distinct(q) /\ Distinct(b)

(* Whoever takes a chunk keeps it, or has heard it.                        *)
LEMMA OnceTaken ==
    ASSUME NEW n \in Nat, NEW h, NEW q \in Seq(Nat), NEW b \in Seq(Nat), Once(n, h, q, b), q # <<>>
    PROVE  /\ Head(q) # CLOSED => /\ Once(n, h, Tail(q), Append(b, Head(q)))
                                  /\ Once(n, h \cup {Head(q)}, Tail(q), b)
           /\ Head(q) = CLOSED => Once(n, h, Tail(q), b)
  <1> DEFINE e == Head(q)
  <1>1. e \in Nat
    OBVIOUS
  <1>2. /\ Chunks(q) = Chunks(Tail(q)) \cup ({e} \ {CLOSED})
        /\ Distinct(Tail(q)) /\ e \notin Chunks(Tail(q))
    BY TakenChunk DEF Once
  <1>3. CLOSED \notin Chunks(q) /\ CLOSED \notin Chunks(b)
    BY DEF Chunks
  <1>4. /\ Chunks(Append(b, e)) = Chunks(b) \cup ({e} \ {CLOSED})
        /\ e \notin Chunks(b) => Distinct(Append(b, e))
    BY <1>1, PushedChunk DEF Once
  <1> HIDE DEF e
  <1>5. ASSUME e # CLOSED
        PROVE  Once(n, h, Tail(q), Append(b, e)) /\ Once(n, h \cup {e}, Tail(q), b)
    <2>1. e \in Chunks(q)
      BY <1>2, <1>5
    <2>2. e \notin h /\ e \notin Chunks(b)
      BY <2>1 DEF Once
    <2> QED BY <1>2, <1>4, <1>5, <2>1, <2>2 DEF Once
  <1>6. ASSUME e = CLOSED PROVE Once(n, h, Tail(q), b)
    BY <1>2, <1>6 DEF Once
  <1> QED BY <1>5, <1>6 DEF e

(* What the barge-in had in its hands is not lost when it is pushed back.  *)
LEMMA OnceRepushed ==
    ASSUME NEW n \in Nat, NEW h, NEW q \in Seq(Nat), NEW b \in Seq(Nat), Once(n, h, q, b)
    PROVE  Once(n, h, q \o b, <<>>)
  <1>1. Chunks(<<>>) = {} /\ Distinct(<<>>)
    BY DEF Chunks, Distinct
  <1>2. Chunks(q \o b) = Chunks(q) \cup Chunks(b) /\ Distinct(q \o b)
    BY RepushedChunks DEF Once
  <1> QED BY <1>1, <1>2 DEF Once

(* The next chunk of the caller is a new one.                              *)
LEMMA OncePushed ==
    ASSUME NEW n \in Nat, NEW h, NEW q \in Seq(Nat), NEW b \in Seq(Nat), Once(n, h, q, b)
    PROVE  /\ Once(n + 1, h, Append(q, n + 1), b)
           /\ Once(n, h, Append(q, CLOSED), b)
  <1>1. CLOSED \in Nat /\ n + 1 \in Nat /\ n + 1 # CLOSED /\ CLOSED \notin Chunks(q)
    BY DEF CLOSED, Chunks
  <1>2. n + 1 \notin 1..n /\ 1..(n + 1) = 1..n \cup {n + 1}
    OBVIOUS
  <1>3. /\ Chunks(Append(q, CLOSED)) = Chunks(q) \cup ({CLOSED} \ {CLOSED})
        /\ Distinct(Append(q, CLOSED))
    BY <1>1, PushedChunk DEF Once
  <1>4. n + 1 \notin h /\ n + 1 \notin Chunks(q) /\ n + 1 \notin Chunks(b)
    BY <1>2 DEF Once
  <1>5. /\ Chunks(Append(q, n + 1)) = Chunks(q) \cup {n + 1}
        /\ Distinct(Append(q, n + 1))
    BY <1>1, <1>4, PushedChunk DEF Once
  <1> QED BY <1>2, <1>3, <1>4, <1>5 DEF Once

(* What the barge-in task of the phrase has read and not given back.       *)
InHand == IF phrase = 0 THEN <<>> ELSE collected[phrase]
ChunkInv == ~timedOut => Once(arrived, heard, incoming, InHand)

(* What ChunkInv speaks of are queues of numbers.                          *)
LEMMA ChunkTypes ==
    ASSUME TypeInv
    PROVE  /\ incoming \in Seq(Nat) /\ arrived \in Nat
           /\ \A p \in Phrases : collected[p] \in Seq(Nat)
           /\ InHand \in Seq(Nat)
  <1>1. arrived \in Nat /\ phrase \in 0..MaxPhrases
    BY DEF TypeInv, TypeOK
  <1>2. incoming \in Seq(0..MaxArrivals) /\ \A p \in Phrases : collected[p] \in Seq(1..MaxArrivals)
    BY DEF TypeInv, TypeOK
  <1>3. incoming \in Seq(Nat)
    BY <1>2
  <1>4. \A p \in Phrases : collected[p] \in Seq(Nat)
    BY <1>2
  <1> QED BY <1>1, <1>3, <1>4 DEF InHand, Phrases

(* The steps that touch the caller's chunks.                               *)
ChunksTouched ==
    \/ BargeStep \/ SayCut \/ SayNotCut \/ SayReaped \/ StartSay \/ Hear
    \/ Media \/ Disconnect \/ WatchHangup

(* Every other step leaves the chunks where they are.                      *)
LEMMA ChunkSteps ==
    ASSUME [Next]_vars, ~ChunksTouched
    PROVE  UNCHANGED <<incoming, collected, phrase, arrived, heard>>
  <1> DEFINE Q == UNCHANGED <<incoming, collected, phrase, arrived, heard>>
  <1> USE DEF queueVars, callVars, taskVars
  <1>1. ASSUME NEW p \in Phrases, SendQuiet(p) \/ SendPushes(p) PROVE Q
    BY <1>1, Zenon DEF SendQuiet, SendFindsSession, SendFindsNone, SendDrains, SendWakes, SendFails,
                       SendPushes
  <1>2. CASE SayCutReturns \/ SayReaps \/ SayAwaited \/ SayFails \/ SayGuarded
    BY <1>2, Zenon DEF SayCutReturns, SayReaps, SayAwaited, SayFails, SayGuarded
  <1>3. CASE StartListening \/ StopListening \/ FinishDialog \/ HangUp \/ CallTimeout
    BY <1>3, Zenon DEF StartListening, StopListening, FinishDialog, HangUp, CallTimeout
  <1>4. CASE Connect \/ StartSender
    BY <1>4, Zenon DEF Connect, StartSender
  <1>5. CASE SenderTakes \/ SenderMarks \/ Tick \/ SenderCrashes
    BY <1>5, Zenon DEF SenderTakes, SenderMarks, Tick, SenderCrashes
  <1>6. CASE UNCHANGED vars
    BY <1>6, Zenon DEF vars
  <1> QED BY <1>1, <1>2, <1>3, <1>4, <1>5, <1>6, NextSteps
          DEF ChunksTouched, SaySteps, ListenSteps, BridgeSteps

(* Until the timer fires every step keeps each chunk in one place.         *)
LEMMA ChunkStep == TypeInv /\ TaskInv /\ ChunkInv /\ [Next]_vars => ChunkInv'
  <1> SUFFICES ASSUME TypeInv, TaskInv, ChunkInv, [Next]_vars, ~timedOut'
               PROVE  Once(arrived', heard', incoming', InHand')
    BY DEF ChunkInv
  <1>0. /\ incoming \in Seq(Nat) /\ arrived \in Nat /\ InHand \in Seq(Nat)
        /\ \A p \in Phrases : collected[p] \in Seq(Nat)
    BY ChunkTypes
  <1>1. ~timedOut /\ Once(arrived, heard, incoming, InHand)
    BY OneWay DEF ChunkInv
  <1>2. DOMAIN collected = Phrases /\ phrase \in 0..MaxPhrases
    BY DEF TypeInv, TypeOK
  <1>3. CASE ~ChunksTouched
    BY <1>1, <1>3, ChunkSteps DEF InHand
  <1>4. ASSUME NEW p \in Phrases, BargeReads(p) \/ BargeEnds(p)
        PROVE  Once(arrived', heard', incoming', InHand')
    <2>1. barge[p] = "reading" /\ incoming # <<>> /\ incoming' = Tail(incoming)
          /\ UNCHANGED <<heard, arrived, phrase>>
      BY <1>4, Zenon DEF BargeReads, BargeEnds, callVars
    <2>2. p = phrase /\ phrase # 0
      BY <1>1, <2>1 DEF TaskInv, Alone, Phrases
    <2>3. CASE BargeReads(p)
      <3>1. Head(incoming) # CLOSED /\ collected' = [collected EXCEPT ![p] = Append(@, Head(incoming))]
        BY <2>3, Zenon DEF BargeReads
      <3>2. InHand' = Append(InHand, Head(incoming))
        BY <1>2, <2>1, <2>2, <3>1 DEF InHand
      <3> QED BY <1>0, <1>1, <2>1, <3>1, <3>2, OnceTaken
    <2>4. CASE BargeEnds(p)
      <3>1. Head(incoming) = CLOSED /\ collected' = collected
        BY <2>4, Zenon DEF BargeEnds
      <3>2. InHand' = InHand
        BY <2>1, <3>1 DEF InHand
      <3> QED BY <1>0, <1>1, <2>1, <3>1, <3>2, OnceTaken
    <2> QED BY <1>4, <2>3, <2>4
  <1>5. CASE SayCut \/ SayNotCut \/ SayReaped
    <2>1. Repush /\ UNCHANGED <<heard, arrived, phrase>> /\ call \in {"wait", "reap"}
      BY <1>5, Zenon DEF SayCut, SayNotCut, SayReaped
    <2>2. phrase > 0 /\ phrase \in Phrases
      BY <1>2, <2>1 DEF TypeInv, HasPhrase, Phrases
    <2>3. incoming' = incoming \o InHand /\ InHand' = <<>>
      BY <1>2, <2>1, <2>2 DEF Repush, InHand
    <2> QED BY <1>0, <1>1, <2>1, <2>3, OnceRepushed
  <1>6. CASE StartSay
    <2>1. /\ phrase' = phrase + 1 /\ UNCHANGED <<incoming, collected, heard, arrived>>
          /\ call \in {"idle", "goodbye"} /\ phrase < MaxPhrases
      BY <1>6, Zenon DEF StartSay, queueVars
    <2>2. phrase' \in Phrases /\ phrase' > phrase /\ phrase' # 0
      BY <1>2, <2>1 DEF Phrases
    <2>3. collected[phrase'] = <<>>
      BY <2>2 DEF TaskInv, Fresh
    <2>4. InHand' = <<>>
      BY <2>1, <2>2, <2>3 DEF InHand
    <2>5. InHand = <<>>
      BY <1>1, <1>2, <2>1 DEF TaskInv, Alone, InHand, Phrases
    <2> QED BY <1>1, <2>1, <2>4, <2>5
  <1>7. CASE Hear
    <2>1. /\ incoming # <<>> /\ incoming' = Tail(incoming) /\ UNCHANGED <<collected, phrase, arrived>>
          /\ Head(incoming) = CLOSED => heard' = heard
          /\ Head(incoming) # CLOSED => heard' = heard \cup {Head(incoming)}
      BY <1>7, Zenon DEF Hear, taskVars
    <2>2. InHand' = InHand
      BY <2>1 DEF InHand
    <2>3. CASE Head(incoming) = CLOSED
      <3>1. Once(arrived, heard, Tail(incoming), InHand)
        BY <1>0, <1>1, <2>1, <2>3, OnceTaken
      <3> QED BY <2>1, <2>2, <2>3, <3>1
    <2>4. CASE Head(incoming) # CLOSED
      <3>1. Once(arrived, heard \cup {Head(incoming)}, Tail(incoming), InHand)
        BY <1>0, <1>1, <2>1, <2>4, OnceTaken
      <3> QED BY <2>1, <2>2, <2>4, <3>1
    <2> QED BY <2>3, <2>4
  <1>8. CASE Media
    <2>1. arrived' = arrived + 1 /\ incoming' = Append(incoming, arrived + 1)
          /\ UNCHANGED <<collected, phrase, heard>>
      BY <1>8, Zenon DEF Media, callVars, taskVars
    <2>2. InHand' = InHand
      BY <2>1 DEF InHand
    <2> QED BY <1>0, <1>1, <2>1, <2>2, OncePushed
  <1>9. CASE Disconnect \/ WatchHangup
    <2>1. incoming' = Append(incoming, CLOSED) /\ UNCHANGED <<collected, phrase, heard, arrived>>
      BY <1>9, Zenon DEF Disconnect, WatchHangup, CloseBridge, callVars, taskVars
    <2>2. InHand' = InHand
      BY <2>1 DEF InHand
    <2> QED BY <1>0, <1>1, <2>1, <2>2, OncePushed
  <1> QED BY <1>3, <1>4, <1>5, <1>6, <1>7, <1>8, <1>9 DEF ChunksTouched, BargeStep

(* Every chunk that arrived before the timer fired is heard, in the queue  *)
(* or in the hands of the barge-in task: in one of them, and once.         *)
THEOREM ChunksKept == Spec => []ChunkInv
  <1>1. Init => ChunkInv
    <2> SUFFICES ASSUME Init PROVE Once(arrived, heard, incoming, InHand)
      BY DEF ChunkInv
    <2>1. arrived = 0 /\ heard = {} /\ incoming = <<>> /\ phrase = 0
      BY Zenon DEF Init
    <2>2. Chunks(<<>>) = {} /\ Distinct(<<>>) /\ 1..0 = {}
      BY DEF Chunks, Distinct
    <2> QED BY <2>1, <2>2 DEF Once, InHand
  <1>2. IInv /\ ChunkInv /\ [Next]_vars => ChunkInv'
    BY ChunkStep DEF IInv
  <1> QED BY <1>1, <1>2, Invariant, PTL DEF Spec

(* When the agent listens, what the caller has said since the beginning is *)
(* heard or still to be read, nothing lost and nothing twice.              *)
THEOREM NothingIsMissed == Spec => []ListenerMissesNothing
  <1>1. IInv /\ ChunkInv => ListenerMissesNothing
    <2> SUFFICES ASSUME IInv, ChunkInv, call = "listen"
                 PROVE  /\ heard \cup {incoming[i] : i \in Waiting} = 1..arrived
                        /\ Cardinality(heard) + Cardinality(Waiting) = arrived
      BY DEF ListenerMissesNothing
    <2>1. ~timedOut /\ incoming \in Seq(Nat) /\ arrived \in Nat /\ phrase \in 0..MaxPhrases
      BY ChunkTypes DEF IInv, TaskInv, Stages, TypeInv, TypeOK
    <2>2. InHand = <<>>
      BY <2>1 DEF IInv, TaskInv, Alone, InHand, Phrases
    <2>3. Chunks(<<>>) = {}
      BY DEF Chunks
    <2>4. /\ heard \cup Chunks(incoming) = 1..arrived /\ heard \cap Chunks(incoming) = {}
          /\ Distinct(incoming)
      BY <2>1, <2>2, <2>3 DEF ChunkInv, Once
    <2>5. /\ IsFiniteSet(Chunks(incoming)) /\ Cardinality(Waiting) = Cardinality(Chunks(incoming))
          /\ {incoming[i] : i \in Waiting} = Chunks(incoming)
      BY <2>1, <2>4, CountedChunks DEF Waiting
    <2>6. IsFiniteSet(1..arrived) /\ Cardinality(1..arrived) = arrived
      BY <2>1, FS_Interval
    <2>7. IsFiniteSet(heard)
      BY <2>4, <2>6, FS_Subset
    <2>8. Cardinality(heard) \in Nat /\ Cardinality(Chunks(incoming)) \in Nat
      BY <2>5, <2>7, FS_CardinalityType
    <2>9. Cardinality(heard \cup Chunks(incoming))
            = Cardinality(heard) + Cardinality(Chunks(incoming)) - Cardinality(heard \cap Chunks(incoming))
      BY <2>5, <2>7, FS_Union
    <2>10. Cardinality({}) = 0
      BY FS_EmptySet
    <2>11. arrived = Cardinality(heard) + Cardinality(Chunks(incoming)) - 0
      BY <2>4, <2>6, <2>9, <2>10
    <2> QED BY <2>4, <2>5, <2>8, <2>11
  <1> QED BY <1>1, Invariant, ChunksKept, PTL
=============================================================================
