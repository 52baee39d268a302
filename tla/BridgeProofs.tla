------------------------------ MODULE BridgeProofs -----------------------------
(***************************************************************************)
(* Proofs about the bridge between a page and the application (WebBridge), *)
(* for any number of calls and page loads and any size of a batch: what a  *)
(* step keeps, and that the bridge implements MessageFifo.  Last, about    *)
(* the start of the page (WebBoot), for any plugins: the back button, and  *)
(* what holds when the page is told of deviceready.                        *)
(*                                                                         *)
(* ResultsIn goes through the inbox message by message.  What it returns   *)
(* for every inbox is proved by induction over a set of numbers.           *)
(***************************************************************************)
EXTENDS WebBridge, WebBoot, SequenceTheorems, FiniteSetTheorems, NumberInduction, TLAPS

(* What messagesFromNative can hold. *)
Box == Seq(Results \cup {More})

(* f is the function in ResultsIn(box). *)
UpTo(box, f) ==
    f = [n \in 0 .. Len(box) |->
            IF n = 0 THEN <<>>
            ELSE IF box[n] = More THEN f[n - 1] ELSE Append(f[n - 1], box[n])]

(* The function that ResultsIn is defined by exists for every inbox. *)
LEMMA UpToExists ==
    ASSUME NEW box \in Box
    PROVE  \E f : UpTo(box, f)
<1> DEFINE Part(f, k) ==
             f = [n \in 0 .. k |->
                     IF n = 0 THEN <<>>
                     ELSE IF box[n] = More THEN f[n - 1] ELSE Append(f[n - 1], box[n])]
           S == {k \in Nat : \E f : Part(f, k)}
<1>1. 0 \in S
  <2> DEFINE f == [n \in 0 .. 0 |-> <<>>]
  <2>1. f = [n \in 0 .. 0 |->
                     IF n = 0 THEN <<>>
                     ELSE IF box[n] = More THEN f[n - 1] ELSE Append(f[n - 1], box[n])]
    OBVIOUS
  <2>2. Part(f, 0)
    BY <2>1
  <2> QED
    BY <2>2
<1>2. ASSUME NEW k \in Nat, k \in S PROVE k + 1 \in S
  <2>1. PICK g : Part(g, k)
    BY <1>2
  <2> DEFINE step == IF box[k + 1] = More THEN g[k] ELSE Append(g[k], box[k + 1])
             f == [n \in 0 .. (k + 1) |-> IF n <= k THEN g[n] ELSE step]
             h == [n \in 0 .. (k + 1) |->
                     IF n = 0 THEN <<>>
                     ELSE IF box[n] = More THEN f[n - 1] ELSE Append(f[n - 1], box[n])]
  <2>2. \A n \in 0 .. k : g[n] = IF n = 0 THEN <<>>
                     ELSE IF box[n] = More THEN g[n - 1] ELSE Append(g[n - 1], box[n])
    BY <2>1
  <2>3. ASSUME NEW n \in 0 .. (k + 1) PROVE f[n] = h[n]
    <3>1. CASE n = k + 1
      <4>1. n # 0 /\ n - 1 = k /\ ~(n <= k) /\ k <= k /\ k \in 0 .. (k + 1)
        BY <3>1
      <4>2. f[n] = step /\ f[n - 1] = g[k]
        BY <4>1
      <4> QED
        BY <4>1, <4>2, <3>1
    <3>2. CASE n \in 0 .. k /\ n # 0
      <4>1. n - 1 \in 0 .. k /\ n - 1 \in 0 .. (k + 1) /\ n <= k /\ n - 1 <= k
        BY <3>2
      <4>2. f[n] = g[n] /\ f[n - 1] = g[n - 1]
        BY <4>1
      <4> HIDE DEF f
      <4> QED
        BY <2>2, <3>2, <4>2
    <3>3. CASE n = 0
      BY <2>2, <3>3
    <3> QED
      BY <3>1, <3>2, <3>3
  <2>4. f = h
    BY <2>3
  <2>5. Part(f, k + 1)
    BY <2>4
  <2> HIDE DEF f, Part
  <2> QED
    BY <2>5
<1> HIDE DEF S
<1>3. \A k \in Nat : k \in S
  BY <1>1, <1>2, SetInduction
<1>4. Len(box) \in S
  BY <1>3 DEF Box
<1> QED
  BY <1>4 DEF S, UpTo

(* So ResultsIn takes its value from one. *)
LEMMA ResultsInBox ==
    ASSUME NEW box \in Box
    PROVE  \E f : UpTo(box, f) /\ ResultsIn(box) = f[Len(box)]
<1> DEFINE f == CHOOSE f : UpTo(box, f)
<1>1. UpTo(box, f)
  BY UpToExists
<1>2. ResultsIn(box) = f[Len(box)]
  BY DEF ResultsIn, UpTo
<1> QED
  BY <1>1, <1>2

(* What it holds: results alone, one longer at each that is not More. *)
LEMMA UpToSteps ==
    ASSUME NEW box \in Box, NEW f, UpTo(box, f)
    PROVE  /\ f[0] = <<>>
           /\ \A n \in 1 .. Len(box) :
                 f[n] = IF box[n] = More THEN f[n - 1] ELSE Append(f[n - 1], box[n])
           /\ \A n \in 0 .. Len(box) : f[n] \in Seq(Results)
<1>1. Len(box) \in Nat /\ \A n \in 1 .. Len(box) : box[n] \in Results \cup {More}
  BY DEF Box
<1>2. \A n \in 0 .. Len(box) :
         f[n] = IF n = 0 THEN <<>>
                ELSE IF box[n] = More THEN f[n - 1] ELSE Append(f[n - 1], box[n])
  BY <1>1 DEF UpTo
<1>3. f[0] = <<>>
  BY <1>1, <1>2
<1>4. \A n \in 1 .. Len(box) :
         f[n] = IF box[n] = More THEN f[n - 1] ELSE Append(f[n - 1], box[n])
  BY <1>1, <1>2
<1> DEFINE S == {n \in Nat : n <= Len(box) => f[n] \in Seq(Results)}
<1>5. 0 \in S
  <2>1. <<>> \in Seq(Results)
    OBVIOUS
  <2> QED
    BY <1>3, <2>1
<1>6. ASSUME NEW n \in Nat, n \in S PROVE n + 1 \in S
  <2> SUFFICES ASSUME n + 1 <= Len(box) PROVE f[n + 1] \in Seq(Results)
    OBVIOUS
  <2>1. n + 1 \in 1 .. Len(box) /\ (n + 1) - 1 = n /\ f[n] \in Seq(Results)
    BY <1>1, <1>6
  <2>2. f[n + 1] = IF box[n + 1] = More THEN f[n] ELSE Append(f[n], box[n + 1])
    BY <1>4, <2>1
  <2> QED
    BY <1>1, <2>1, <2>2
<1> HIDE DEF S
<1>7. \A n \in Nat : n \in S
  BY <1>5, <1>6, SetInduction
<1> QED
  BY <1>1, <1>3, <1>4, <1>7 DEF S

(* Appending to a concatenation appends to its second part. *)
LEMMA AppendOfConcat ==
    \A s, t \in Seq(Results), x \in Results : Append(s \o t, x) = s \o Append(t, x)
  OBVIOUS

(* The results in two batches, one behind the other, are those of both. *)
LEMMA ResultsInConcat ==
    ASSUME NEW box \in Box, NEW more \in Box
    PROVE  /\ ResultsIn(box \o more) = ResultsIn(box) \o ResultsIn(more)
           /\ ResultsIn(box) \in Seq(Results)
<1> DEFINE both == box \o more
           L == Len(box)
           M == Len(more)
<1>1. /\ both \in Box /\ Len(both) = L + M /\ L \in Nat /\ M \in Nat
      /\ \A n \in 1 .. L : both[n] = box[n]
      /\ \A n \in 1 .. M : both[L + n] = more[n]
  BY DEF Box
<1>2. PICK f : UpTo(box, f) /\ ResultsIn(box) = f[L]
  BY ResultsInBox
<1>3. PICK g : UpTo(more, g) /\ ResultsIn(more) = g[M]
  BY ResultsInBox
<1>4. PICK h : UpTo(both, h) /\ ResultsIn(both) = h[Len(both)]
  BY <1>1, ResultsInBox
<1> HIDE DEF both, L, M
<1>5. /\ f[0] = <<>> /\ g[0] = <<>> /\ h[0] = <<>>
      /\ \A n \in 1 .. L : f[n] = IF box[n] = More THEN f[n - 1] ELSE Append(f[n - 1], box[n])
      /\ \A n \in 1 .. M : g[n] = IF more[n] = More THEN g[n - 1] ELSE Append(g[n - 1], more[n])
      /\ \A n \in 1 .. L + M : h[n] = IF both[n] = More THEN h[n - 1] ELSE Append(h[n - 1], both[n])
      /\ \A n \in 0 .. L : f[n] \in Seq(Results)
      /\ \A n \in 0 .. M : g[n] \in Seq(Results)
  <2>1. /\ f[0] = <<>>
        /\ \A n \in 1 .. L : f[n] = IF box[n] = More THEN f[n - 1] ELSE Append(f[n - 1], box[n])
        /\ \A n \in 0 .. L : f[n] \in Seq(Results)
    BY <1>2, UpToSteps DEF L
  <2>2. /\ g[0] = <<>>
        /\ \A n \in 1 .. M : g[n] = IF more[n] = More THEN g[n - 1] ELSE Append(g[n - 1], more[n])
        /\ \A n \in 0 .. M : g[n] \in Seq(Results)
    BY <1>3, UpToSteps DEF M
  <2>3. /\ h[0] = <<>>
        /\ \A n \in 1 .. Len(both) : h[n] = IF both[n] = More THEN h[n - 1] ELSE Append(h[n - 1], both[n])
    BY <1>1, <1>4, UpToSteps
  <2> QED
    BY <1>1, <2>1, <2>2, <2>3
<1>6. \A n \in 0 .. L : h[n] = f[n]
  <2> DEFINE S == {n \in Nat : n <= L => h[n] = f[n]}
  <2>1. 0 \in S
    BY <1>5
  <2>2. ASSUME NEW n \in Nat, n \in S PROVE n + 1 \in S
    <3> SUFFICES ASSUME n + 1 <= L PROVE h[n + 1] = f[n + 1]
      OBVIOUS
    <3>1. /\ n + 1 \in 1 .. L /\ n + 1 \in 1 .. L + M /\ (n + 1) - 1 = n
          /\ h[n] = f[n] /\ both[n + 1] = box[n + 1]
      BY <1>1, <2>2
    <3> QED
      BY <1>5, <3>1
  <2> HIDE DEF S
  <2>3. \A n \in Nat : n \in S
    BY <2>1, <2>2, SetInduction
  <2> QED
    BY <1>1, <2>3 DEF S
<1>7. \A n \in 0 .. M : h[L + n] = f[L] \o g[n]
  <2> DEFINE Agree(n) == n <= M => h[L + n] = f[L] \o g[n]
             S == {n \in Nat : Agree(n)}
  <2>0. f[L] \in Seq(Results) /\ h[L] = f[L]
    BY <1>1, <1>5, <1>6
  <2>1. 0 \in S
    <3>1. f[L] \o <<>> = f[L] /\ L + 0 = L
      BY <1>1, <2>0, ConcatEmptySeq
    <3> QED
      BY <1>5, <2>0, <3>1
  <2>2. ASSUME NEW n \in Nat, n \in S PROVE n + 1 \in S
    <3> SUFFICES ASSUME n + 1 <= M PROVE h[L + (n + 1)] = f[L] \o g[n + 1]
      <4>1. Agree(n + 1) => n + 1 \in S
        <5> HIDE DEF Agree
        <5> QED
          OBVIOUS
      <4> QED
        BY <4>1
    <3>1. /\ n + 1 \in 1 .. M /\ (n + 1) - 1 = n
          /\ L + (n + 1) \in 1 .. L + M /\ (L + (n + 1)) - 1 = L + n
          /\ both[L + (n + 1)] = more[n + 1] /\ n \in 0 .. M /\ n <= M
      BY <1>1
    <3>a. h[L + n] = f[L] \o g[n]
      BY <2>2, <3>1 DEF Agree
    <3>b. g[n] \in Seq(Results)
      BY <1>5, <3>1
    <3>2. h[L + (n + 1)] = IF more[n + 1] = More THEN h[L + n] ELSE Append(h[L + n], more[n + 1])
      BY <1>5, <3>1
    <3>3. g[n + 1] = IF more[n + 1] = More THEN g[n] ELSE Append(g[n], more[n + 1])
      BY <1>5, <3>1
    <3>4. CASE more[n + 1] = More
      BY <3>a, <3>2, <3>3, <3>4
    <3>5. CASE more[n + 1] # More
      <4>1. more[n + 1] \in Results
        BY <1>1, <3>1, <3>5 DEF Box, M
      <4>2. Append(f[L] \o g[n], more[n + 1]) = f[L] \o Append(g[n], more[n + 1])
        BY <2>0, <3>b, <4>1, AppendOfConcat
      <4> QED
        BY <3>a, <3>2, <3>3, <3>5, <4>2
    <3> QED
      BY <3>4, <3>5
  <2> HIDE DEF S
  <2>3. \A n \in Nat : n \in S
    BY <2>1, <2>2, SetInduction
  <2> SUFFICES ASSUME NEW n \in 0 .. M PROVE h[L + n] = f[L] \o g[n]
    OBVIOUS
  <2>4. n \in Nat /\ n <= M /\ n \in S
    BY <1>1, <2>3
  <2> QED
    BY <2>4 DEF S
<1>8. h[L + M] = f[L] \o g[M] /\ f[L] \in Seq(Results)
  <2>1. M \in 0 .. M /\ L \in 0 .. L
    BY <1>1
  <2> QED
    BY <1>5, <1>7, <2>1
<1> QED
  BY <1>1, <1>2, <1>3, <1>4, <1>8 DEF both

(***************************************************************************)
(* An empty batch and the end of a batch hold no result; results are all   *)
(* there is in a queue.                                                    *)
(***************************************************************************)
LEMMA ResultsInFew ==
    /\ ResultsIn(<<>>) = <<>>
    /\ ResultsIn(<<More>>) = <<>>
    /\ \A q \in Seq(Results) : ResultsIn(q) = q
<1>1. ResultsIn(<<>>) = <<>>
  <2>1. <<>> \in Box /\ Len(<<>>) = 0
    BY DEF Box
  <2>2. PICK f : UpTo(<<>>, f) /\ ResultsIn(<<>>) = f[0]
    BY <2>1, ResultsInBox
  <2> QED
    BY <2>1, <2>2, UpToSteps
<1>2. ResultsIn(<<More>>) = <<>>
  <2>1. <<More>> \in Box /\ Len(<<More>>) = 1
    BY DEF Box
  <2>2. PICK f : UpTo(<<More>>, f) /\ ResultsIn(<<More>>) = f[1]
    BY <2>1, ResultsInBox
  <2>3. f[1] = f[0] /\ f[0] = <<>>
    BY <2>1, <2>2, UpToSteps
  <2> QED
    BY <2>2, <2>3
<1>3. ASSUME NEW q \in Seq(Results) PROVE ResultsIn(q) = q
  <2>1. q \in Box /\ Len(q) \in Nat
    BY DEF Box
  <2>2. ASSUME NEW n \in 1 .. Len(q) PROVE q[n] # More
    <3>1. q[n] \in Results
      BY <2>1
    <3>2. q[n].to \in Ids /\ More.to = 0
      BY <3>1 DEF Results, More
    <3> QED
      BY <3>2, BridgeAssumption DEF Ids
  <2>3. PICK f : UpTo(q, f) /\ ResultsIn(q) = f[Len(q)]
    BY <2>1, ResultsInBox
  <2>4. /\ f[0] = <<>>
        /\ \A n \in 1 .. Len(q) : f[n] = Append(f[n - 1], q[n])
    BY <2>1, <2>2, <2>3, UpToSteps
  <2> DEFINE S == {n \in Nat : n <= Len(q) => f[n] = SubSeq(q, 1, n)}
  <2>5. 0 \in S
    <3>1. SubSeq(q, 1, 0) = <<>>
      OBVIOUS
    <3> QED
      BY <2>4, <3>1
  <2>6. ASSUME NEW n \in Nat, n \in S PROVE n + 1 \in S
    <3> SUFFICES ASSUME n + 1 <= Len(q) PROVE f[n + 1] = SubSeq(q, 1, n + 1)
      OBVIOUS
    <3>1. n + 1 \in 1 .. Len(q) /\ (n + 1) - 1 = n /\ f[n] = SubSeq(q, 1, n)
      BY <2>1, <2>6
    <3>2. Append(SubSeq(q, 1, n), q[n + 1]) = SubSeq(q, 1, n + 1)
      BY <3>1
    <3> QED
      BY <2>4, <3>1, <3>2
  <2> HIDE DEF S
  <2>7. \A n \in Nat : n \in S
    BY <2>5, <2>6, SetInduction
  <2>8. f[Len(q)] = SubSeq(q, 1, Len(q))
    BY <2>1, <2>7 DEF S
  <2> QED
    BY <2>1, <2>3, <2>8
<1> QED
  BY <1>1, <1>2, <1>3

-----------------------------------------------------------------------------
(* No callback twice in what was got, is in the inbox and in the queue. *)
OnceIn(g, b, q) ==
    /\ \A i, j \in 1 .. Len(g) : g[i].result.to = g[j].result.to => i = j
    /\ \A i, j \in 1 .. Len(b) : b[i] # More /\ b[i].to = b[j].to => i = j
    /\ \A i, j \in 1 .. Len(q) : q[i].to = q[j].to => i = j
    /\ \A i \in 1 .. Len(g) : \A j \in 1 .. Len(b) : g[i].result.to # b[j].to
    /\ \A i \in 1 .. Len(g) : \A j \in 1 .. Len(q) : g[i].result.to # q[j].to
    /\ \A i \in 1 .. Len(b) : \A j \in 1 .. Len(q) : b[i].to # q[j].to

(* Every result there is the final one of a context that has sent it. *)
FinalIn(g, b, q, sent) ==
    /\ \A i \in 1 .. Len(g) : g[i].result.to \in sent
    /\ \A i \in 1 .. Len(b) : b[i] = More \/ b[i].to \in sent
    /\ \A i \in 1 .. Len(q) : q[i].to \in sent

(* What was got was asked for by the page that got it. *)
GotHere == \A i \in 1 .. Len(got) : made[got[i].result.to] = got[i].load

(***************************************************************************)
(* Only ids that were handed out are in use, and callbacks are this        *)
(* page's.                                                                 *)
(***************************************************************************)
HandedOut ==
    /\ callbacks \subseteq 1 .. (nextId - 1)
    /\ finished \subseteq 1 .. (nextId - 1)
    /\ work \subseteq 1 .. (nextId - 1)
    /\ context \in 0 .. (nextId - 1)
    /\ work # {} => context # 0
    /\ \A i \in callbacks : made[i] = load

(* Before the bridge is set up nothing is under way. *)
LoadingIsQuiet ==
    /\ jsAt = "loading" <=> ~enabled
    /\ ~enabled => queue = <<>> /\ events = <<>>

(* The type of got. *)
Got == Seq([result : Results, load : 1 .. MaxLoads])

(***************************************************************************)
(* The inductive invariant.  That a callback is called once is not kept by *)
(* the steps alone: it also matters where its result is before it is       *)
(* called.  A result is in the queue, in the inbox or got, in one of them  *)
(* once (OnceIn); its context has then sent its final result and sends no  *)
(* other (FinalIn).                                                        *)
(***************************************************************************)
BridgeInv ==
    /\ BridgeTypeOK
    /\ HandedOut
    /\ OnceIn(got, inbox, queue) /\ FinalIn(got, inbox, queue, finished)
    /\ GotHere
    /\ LoadingIsQuiet
    /\ EventsTellThePage /\ NoStuckMessage

-----------------------------------------------------------------------------
(* A result is told from the end of a batch by its callback. *)
LEMMA ResultNotMore == \A m \in Results : m # More /\ m.to # 0 /\ More.to = 0
<1> SUFFICES ASSUME NEW m \in Results PROVE m.to # 0 /\ More.to = 0
  OBVIOUS
<1> QED
  BY BridgeAssumption DEF Results, Ids, More

(***************************************************************************)
(* What popAndEncode takes and what it leaves are the queue, and the batch *)
(* ends in More when something is left.                                    *)
(***************************************************************************)
LEMMA EncodeTakes ==
    ASSUME queue \in Seq(Results), queue # <<>>,
           NEW rest, rest = SubSeq(queue, BatchLen + 1, Len(queue)),
           NEW batch, batch = Encode(BatchLen)
    PROVE  /\ batch \in Box /\ rest \in Seq(Results)
           /\ ResultsIn(batch) \o rest = queue
           /\ Len(batch) >= 1
           /\ rest # <<>> => Len(batch) >= 2 /\ batch[Len(batch)] = More
           /\ BatchLen \in 1 .. Len(queue)
           /\ \A i \in 1 .. Len(batch) :
                 batch[i] = More \/ (i <= BatchLen /\ batch[i] = queue[i])
           /\ Len(rest) = Len(queue) - BatchLen
           /\ \A i \in 1 .. Len(rest) : rest[i] = queue[BatchLen + i]
<1> DEFINE n == BatchLen
           first == SubSeq(queue, 1, n)
           mark == IF n < Len(queue) THEN <<More>> ELSE <<>>
<1>1. Len(queue) \in Nat /\ Len(queue) > 0 /\ n \in 1 .. Len(queue)
  BY BridgeAssumption DEF BatchLen
<1> HIDE DEF n
<1>2. batch = first \o mark
  BY DEF Encode, n
<1>3. /\ first \in Seq(Results) /\ Len(first) = n
      /\ \A i \in 1 .. n : first[i] = queue[i]
  BY <1>1
<1>4. /\ rest \in Seq(Results) /\ Len(rest) = Len(queue) - n
      /\ \A i \in 1 .. Len(rest) : rest[i] = queue[n + i]
  BY <1>1 DEF n
<1>5. first \o rest = queue
  <2>1. /\ 1 \in 1 .. Len(queue) + 1 /\ n \in 1 - 1 .. Len(queue)
        /\ Len(queue) \in n .. Len(queue)
    BY <1>1
  <2>2. SubSeq(queue, 1, n) \o SubSeq(queue, n + 1, Len(queue)) = SubSeq(queue, 1, Len(queue))
    BY <2>1, ConcatAdjacentSubSeq
  <2>3. SubSeq(queue, 1, Len(queue)) = queue
    BY SubSeqFull
  <2> QED
    BY <2>2, <2>3 DEF n
<1>a. <<More>> \in Box /\ <<>> \in Box
  BY DEF Box
<1>b. mark \in Box /\ (n < Len(queue) => mark = <<More>>) /\ (n = Len(queue) => mark = <<>>)
  <2>1. n < Len(queue) \/ n = Len(queue)
    BY <1>1
  <2>2. ~(n < n)
    BY <1>1
  <2> QED
    BY <1>a, <2>1, <2>2
<1> HIDE DEF first, mark
<1>6. first \in Box
  BY <1>3, SeqMonotonic DEF Box
<1>7. ResultsIn(batch) = first
  <2>1. ResultsIn(batch) = ResultsIn(first) \o ResultsIn(mark)
    BY <1>2, <1>6, <1>b, ResultsInConcat
  <2>2. ResultsIn(mark) = <<>> /\ ResultsIn(first) = first
    BY <1>1, <1>3, <1>b, ResultsInFew
  <2> QED
    BY <1>3, <2>1, <2>2, ConcatEmptySeq
<1>c. BatchLen = n
  BY DEF n
<1>8. CASE n < Len(queue)
  <2>1. mark = <<More>>
    BY <1>8, <1>b
  <2>2. /\ batch \in Box /\ Len(batch) = n + 1 /\ batch[n + 1] = More
        /\ \A i \in 1 .. n : batch[i] = queue[i]
    BY <1>1, <1>2, <1>3, <1>6, <2>1 DEF Box
  <2>3. \A i \in 1 .. Len(batch) : batch[i] = More \/ (i <= n /\ batch[i] = queue[i])
    <3> SUFFICES ASSUME NEW i \in 1 .. Len(batch), i # n + 1
                 PROVE  i <= n /\ batch[i] = queue[i]
      BY <2>2
    <3>1. i \in 1 .. n
      BY <1>1, <2>2
    <3> QED
      BY <2>2, <3>1, <1>1
  <2>4. Len(batch) >= 2
    BY <1>1, <2>2
  <2>5. batch[Len(batch)] = More
    BY <2>2
  <2>6. ResultsIn(batch) \o rest = queue
    BY <1>5, <1>7
  <2>7. Len(batch) >= 1
    BY <1>1, <2>2
  <2> QED
    BY <1>1, <1>4, <1>c, <2>2, <2>3, <2>4, <2>5, <2>6, <2>7
<1>9. CASE n = Len(queue)
  <2>1. batch = first
    BY <1>2, <1>3, <1>9, <1>b, ConcatEmptySeq
  <2>2. rest = <<>>
    BY <1>1, <1>4, <1>9
  <2>3. \A i \in 1 .. Len(batch) : i <= n /\ batch[i] = queue[i]
    BY <1>1, <1>3, <2>1
  <2>4. Len(batch) >= 1
    BY <1>1, <1>3, <2>1
  <2>6. ResultsIn(batch) \o rest = queue
    BY <1>5, <1>7
  <2> QED
    BY <1>1, <1>4, <1>6, <1>c, <2>1, <2>2, <2>3, <2>4, <2>6
<1>10. n < Len(queue) \/ n = Len(queue)
  BY <1>1
<1> QED
  BY <1>8, <1>9, <1>10

(* Moving a batch from the queue to the page doubles no result. *)
LEMMA FetchKeepsOnce ==
    ASSUME queue \in Seq(Results), queue # <<>>, got \in Got, inbox \in Box,
           NEW sent,
           OnceIn(got, inbox, queue), FinalIn(got, inbox, queue, sent),
           NEW rest, rest = SubSeq(queue, BatchLen + 1, Len(queue)),
           NEW box, box = inbox \o Encode(BatchLen)
    PROVE  /\ box \in Box /\ OnceIn(got, box, rest) /\ FinalIn(got, box, rest, sent)
           /\ Len(box) >= 1
           /\ rest # <<>> => Len(box) >= 2 /\ box[Len(box)] = More
<1> DEFINE batch == Encode(BatchLen)
           L == Len(inbox)
           n == BatchLen
<1>1. /\ batch \in Box /\ rest \in Seq(Results)
      /\ Len(batch) >= 1
      /\ rest # <<>> => Len(batch) >= 2 /\ batch[Len(batch)] = More
      /\ n \in 1 .. Len(queue)
      /\ \A i \in 1 .. Len(batch) : batch[i] = More \/ (i <= n /\ batch[i] = queue[i])
      /\ Len(rest) = Len(queue) - n
      /\ \A i \in 1 .. Len(rest) : rest[i] = queue[n + i]
  BY EncodeTakes
<1> HIDE DEF batch, n
<1>2. /\ box \in Box /\ L \in Nat /\ Len(box) = L + Len(batch)
      /\ \A i \in 1 .. L : box[i] = inbox[i]
      /\ \A i \in 1 .. Len(batch) : box[L + i] = batch[i]
  BY <1>1 DEF batch, Box
<1> HIDE DEF L
<1>3. ASSUME NEW i \in 1 .. Len(box)
      PROVE  \/ i \in 1 .. L /\ box[i] = inbox[i]
             \/ box[i] = More
             \/ i - L \in 1 .. n /\ box[i] = queue[i - L]
  <2>1. CASE i <= L
    BY <1>2, <2>1
  <2>2. CASE i > L
    <3>1. i - L \in 1 .. Len(batch) /\ L + (i - L) = i
      BY <1>1, <1>2, <2>2 DEF Box
    <3>2. box[i] = batch[i - L]
      BY <1>2, <3>1
    <3> QED
      BY <1>1, <3>1, <3>2
  <2> QED
    BY <1>2, <2>1, <2>2
<1>4. \A j \in 1 .. Len(rest) : n + j \in 1 .. Len(queue) /\ rest[j] = queue[n + j]
  BY <1>1
<1>5. Len(queue) \in Nat /\ Len(inbox) = L /\ \A i \in 1 .. Len(queue) : queue[i] \in Results
  BY DEF L
<1>6. \A i \in 1 .. Len(queue) : queue[i].to # 0
  BY <1>5, ResultNotMore
<1>7. More.to = 0
  BY DEF More
<1>11. /\ \A i, j \in 1 .. Len(queue) : queue[i].to = queue[j].to => i = j
       /\ \A i \in 1 .. Len(got) : \A j \in 1 .. Len(queue) : got[i].result.to # queue[j].to
       /\ \A i \in 1 .. L : \A j \in 1 .. Len(queue) : inbox[i].to # queue[j].to
  BY <1>5 DEF OnceIn
<1>8. OnceIn(got, box, rest)
  <2>1. \A i, j \in 1 .. Len(box) : box[i] # More /\ box[i].to = box[j].to => i = j
    <3> SUFFICES ASSUME NEW i \in 1 .. Len(box), NEW j \in 1 .. Len(box),
                        box[i] # More, box[i].to = box[j].to
                 PROVE  i = j
      OBVIOUS
    <3>1. CASE i \in 1 .. L /\ box[i] = inbox[i]
      <4>1. CASE j \in 1 .. L /\ box[j] = inbox[j]
        BY <1>5, <3>1, <4>1 DEF OnceIn
      <4>2. CASE box[j] = More
        BY <1>7, <3>1, <4>2, ResultNotMore, <1>5 DEF Box
      <4>3. CASE j - L \in 1 .. n /\ box[j] = queue[j - L]
        <5>1. j - L \in 1 .. Len(queue)
          BY <1>1, <1>5, <4>3
        <5> QED
          BY <1>5, <3>1, <4>3, <5>1 DEF OnceIn
      <4> QED
        BY <1>3, <4>1, <4>2, <4>3
    <3>2. CASE i - L \in 1 .. n /\ box[i] = queue[i - L]
      <4>0. i - L \in 1 .. Len(queue)
        BY <1>1, <1>5, <3>2
      <4>1. CASE j \in 1 .. L /\ box[j] = inbox[j]
        BY <1>5, <3>2, <4>0, <4>1 DEF OnceIn
      <4>2. CASE box[j] = More
        BY <1>6, <1>7, <3>2, <4>0, <4>2
      <4>3. CASE j - L \in 1 .. n /\ box[j] = queue[j - L]
        <5>1. j - L \in 1 .. Len(queue)
          BY <1>1, <1>5, <4>3
        <5>2. i - L = j - L
          BY <3>2, <4>0, <4>3, <5>1 DEF OnceIn
        <5> QED
          BY <1>2, <5>2
      <4> QED
        BY <1>3, <4>1, <4>2, <4>3
    <3> QED
      BY <1>3, <3>1, <3>2
  <2>2. \A i, j \in 1 .. Len(rest) : rest[i].to = rest[j].to => i = j
    <3> SUFFICES ASSUME NEW i \in 1 .. Len(rest), NEW j \in 1 .. Len(rest),
                        rest[i].to = rest[j].to
                 PROVE  i = j
      OBVIOUS
    <3>1. /\ n + i \in 1 .. Len(queue) /\ rest[i] = queue[n + i]
          /\ n + j \in 1 .. Len(queue) /\ rest[j] = queue[n + j]
      BY <1>4
    <3>2. n + i = n + j
      BY <1>11, <3>1
    <3> QED
      BY <1>1, <3>2
  <2>3. ASSUME NEW i \in 1 .. Len(got), NEW j \in 1 .. Len(box)
        PROVE  got[i].result.to # box[j].to
    <3>1. got[i].result.to # 0
      <4>0. got \in Seq([result : Results, load : 1 .. MaxLoads])
        BY DEF Got
      <4>1. got[i] \in [result : Results, load : 1 .. MaxLoads]
        BY <4>0, ElementOfSeq
      <4>2. got[i].result \in Results
        BY <4>1
      <4> QED
        BY <4>2, ResultNotMore
    <3>2. CASE j - L \in 1 .. n /\ box[j] = queue[j - L]
      <4>1. j - L \in 1 .. Len(queue)
        BY <1>1, <1>5, <3>2
      <4> QED
        BY <3>2, <4>1 DEF OnceIn
    <3> QED
      BY <1>3, <1>5, <1>7, <3>1, <3>2 DEF OnceIn
  <2>4. ASSUME NEW i \in 1 .. Len(got), NEW j \in 1 .. Len(rest)
        PROVE  got[i].result.to # rest[j].to
    <3>1. n + j \in 1 .. Len(queue) /\ rest[j] = queue[n + j]
      BY <1>4
    <3> QED
      BY <1>11, <3>1
  <2>5. ASSUME NEW i \in 1 .. Len(box), NEW j \in 1 .. Len(rest)
        PROVE  box[i].to # rest[j].to
    <3>0. n + j \in 1 .. Len(queue) /\ rest[j] = queue[n + j]
      BY <1>4
    <3>1. CASE i - L \in 1 .. n /\ box[i] = queue[i - L]
      <4>2. Len(rest) \in Nat /\ n \in Nat /\ Len(queue) \in Nat /\ n <= Len(queue)
        <5> USE <1>1, <1>5
        <5>a. rest \in Seq(Results)
          OBVIOUS
        <5>1. Len(rest) \in Nat
          BY <5>a, LenProperties
        <5> QED
          BY <5>1
      <4>3. j \in Nat /\ j >= 1
        BY <4>2
      <4>1. i - L \in 1 .. Len(queue) /\ i - L # n + j
        <5> DEFINE k == i - L
        <5>1. k \in 1 .. n
          BY <3>1
        <5> HIDE DEF k
        <5>2. k \in 1 .. Len(queue) /\ k # n + j
          BY <4>2, <4>3, <5>1
        <5> QED
          BY <5>2 DEF k
      <4> QED
        BY <1>11, <3>0, <3>1, <4>1
    <3>2. CASE box[i] = More
      BY <1>6, <1>7, <3>0, <3>2
    <3>3. CASE i \in 1 .. L /\ box[i] = inbox[i]
      BY <1>11, <3>0, <3>3
    <3> QED
      BY <1>3, <3>1, <3>2, <3>3
  <2>6. \A i, j \in 1 .. Len(got) : got[i].result.to = got[j].result.to => i = j
    BY DEF OnceIn
  <2> QED
    BY <2>1, <2>2, <2>3, <2>4, <2>5, <2>6 DEF OnceIn
<1>9. FinalIn(got, box, rest, sent)
  <2>1. ASSUME NEW i \in 1 .. Len(box) PROVE box[i] = More \/ box[i].to \in sent
    <3>1. CASE i - L \in 1 .. n /\ box[i] = queue[i - L]
      <4>1. i - L \in 1 .. Len(queue)
        BY <1>1, <1>5, <3>1
      <4> QED
        BY <3>1, <4>1 DEF FinalIn
    <3> QED
      BY <1>3, <1>5, <3>1 DEF FinalIn
  <2>2. \A i \in 1 .. Len(rest) : rest[i].to \in sent
    BY <1>4 DEF FinalIn
  <2> QED
    BY <2>1, <2>2 DEF FinalIn
<1>10. rest # <<>> => Len(box) >= 2 /\ box[Len(box)] = More
  <2>1. Len(batch) \in Nat /\ Len(batch) \in 1 .. Len(batch)
    BY <1>1 DEF Box
  <2>2. box[Len(box)] = batch[Len(batch)]
    BY <1>2, <2>1
  <2> QED
    BY <1>1, <1>2, <2>1, <2>2
<1>12. Len(box) >= 1
  BY <1>1, <1>2 DEF Box
<1> QED
  BY <1>2, <1>8, <1>9, <1>10, <1>12

(* Nor does taking the first message. *)
LEMMA TakeKeepsOnce ==
    ASSUME NEW b \in Box, b # <<>>, NEW q \in Seq(Results), NEW sent,
           got \in Got, load \in 1 .. MaxLoads,
           OnceIn(got, b, q), FinalIn(got, b, q, sent),
           NEW g,
           \/ g = got
           \/ Head(b) # More /\ g = Append(got, [result |-> Head(b), load |-> load])
    PROVE  /\ g \in Got /\ Tail(b) \in Box
           /\ OnceIn(g, Tail(b), q) /\ FinalIn(g, Tail(b), q, sent)
<1> DEFINE t == Tail(b)
           K == Len(got)
<1>1. /\ t \in Box /\ Len(b) \in Nat /\ Len(b) >= 1 /\ Len(t) = Len(b) - 1
      /\ \A i \in 1 .. Len(t) : t[i] = b[i + 1]
      /\ Head(b) = b[1] /\ b[1] \in Results \cup {More}
  BY DEF Box
<1>2. K \in Nat /\ \A i \in 1 .. K : got[i] \in [result : Results, load : 1 .. MaxLoads]
  <2>1. got \in Seq([result : Results, load : 1 .. MaxLoads])
    BY DEF Got
  <2> QED
    BY <2>1, ElementOfSeq, LenProperties
<1>3. \A i \in 1 .. Len(t) : i + 1 \in 1 .. Len(b) /\ t[i] = b[i + 1] /\ i + 1 # 1
  BY <1>1
<1> HIDE DEF t
<1>4. /\ \A i, j \in 1 .. K : got[i].result.to = got[j].result.to => i = j
      /\ \A i, j \in 1 .. Len(b) : b[i] # More /\ b[i].to = b[j].to => i = j
      /\ \A i, j \in 1 .. Len(q) : q[i].to = q[j].to => i = j
      /\ \A i \in 1 .. K : \A j \in 1 .. Len(b) : got[i].result.to # b[j].to
      /\ \A i \in 1 .. K : \A j \in 1 .. Len(q) : got[i].result.to # q[j].to
      /\ \A i \in 1 .. Len(b) : \A j \in 1 .. Len(q) : b[i].to # q[j].to
  BY DEF OnceIn
<1>5. \A i, j \in 1 .. Len(t) : t[i] # More /\ t[i].to = t[j].to => i = j
  <2> SUFFICES ASSUME NEW i \in 1 .. Len(t), NEW j \in 1 .. Len(t),
                      t[i] # More, t[i].to = t[j].to
               PROVE  i = j
    OBVIOUS
  <2>1. i + 1 = j + 1
    BY <1>3, <1>4
  <2> QED
    BY <1>1, <2>1
<1>6. \A i \in 1 .. Len(t) : \A j \in 1 .. Len(q) : t[i].to # q[j].to
  BY <1>3, <1>4
<1>7. \A i \in 1 .. K : \A j \in 1 .. Len(t) : got[i].result.to # t[j].to
  BY <1>3, <1>4
<1>8. /\ \A i \in 1 .. Len(t) : t[i] = More \/ t[i].to \in sent
      /\ \A i \in 1 .. Len(q) : q[i].to \in sent
      /\ \A i \in 1 .. K : got[i].result.to \in sent
  BY <1>3 DEF FinalIn
<1>9. CASE g = got
  BY <1>1, <1>4, <1>5, <1>6, <1>7, <1>8, <1>9 DEF OnceIn, FinalIn, t
<1>10. CASE Head(b) # More /\ g = Append(got, [result |-> Head(b), load |-> load])
  <2> DEFINE e == [result |-> b[1], load |-> load]
  <2>1. e \in [result : Results, load : 1 .. MaxLoads] /\ e.result = b[1]
    BY <1>1, <1>10
  <2> HIDE DEF e
  <2>2. g = Append(got, e)
    BY <1>1, <1>10 DEF e
  <2>3. /\ g \in Got /\ Len(g) = K + 1 /\ g[K + 1] = e
        /\ \A i \in 1 .. K : g[i] = got[i]
    <3>1. got \in Seq([result : Results, load : 1 .. MaxLoads])
      BY DEF Got
    <3> QED
      BY <2>1, <2>2, <3>1, AppendProperties DEF Got
  <2> HIDE DEF K
  <2>4. ASSUME NEW i \in 1 .. Len(g)
        PROVE  \/ i \in 1 .. K /\ g[i] = got[i]
               \/ i = K + 1 /\ g[i].result = b[1]
    BY <1>2, <2>1, <2>3
  <2>5. 1 \in 1 .. Len(b) /\ b[1] # More
    BY <1>1, <1>10
  <2>6. \A i, j \in 1 .. Len(g) : g[i].result.to = g[j].result.to => i = j
    BY <1>4, <2>4, <2>5
  <2>7. \A i \in 1 .. Len(g) : \A j \in 1 .. Len(t) : g[i].result.to # t[j].to
    <3> SUFFICES ASSUME NEW i \in 1 .. Len(g), NEW j \in 1 .. Len(t)
                 PROVE  g[i].result.to # t[j].to
      OBVIOUS
    <3>1. b[1].to # b[j + 1].to
      BY <1>3, <1>4, <2>5
    <3> QED
      BY <1>3, <1>7, <2>4, <3>1
  <2>8. \A i \in 1 .. Len(g) : \A j \in 1 .. Len(q) : g[i].result.to # q[j].to
    BY <1>4, <2>4, <2>5
  <2>9. \A i \in 1 .. Len(g) : g[i].result.to \in sent
    <3>1. b[1].to \in sent
      BY <2>5 DEF FinalIn
    <3> QED
      BY <1>8, <2>4, <3>1
  <2>10. OnceIn(g, t, q)
    BY <1>4, <1>5, <1>6, <2>6, <2>7, <2>8 DEF OnceIn
  <2>11. FinalIn(g, t, q, sent)
    BY <1>8, <2>9 DEF FinalIn
  <2> QED
    BY <1>1, <2>3, <2>10, <2>11 DEF t
<1> QED
  BY <1>9, <1>10

(***************************************************************************)
(* processMessages keeps what the invariant says of the page, and the page *)
(* still knows of more if it did.                                          *)
(***************************************************************************)
LEMMA ProcessKeeps ==
    ASSUME BridgeInv,
           NEW box \in Box, NEW q \in Seq(Results), NEW later \in Seq({"process", "poll"}),
           OnceIn(got, box, q), FinalIn(got, box, q, finished),
           ProcessMessages(box, later)
    PROVE  /\ got' \in Got /\ callbacks' \subseteq callbacks /\ inbox' \in Box
           /\ ticks' \in Seq({"process", "poll"})
           /\ OnceIn(got', inbox', q) /\ FinalIn(got', inbox', q, finished)
           /\ \A i \in 1 .. Len(got') : made[got'[i].result.to] = got'[i].load
           /\ \/ \E i \in DOMAIN later : later[i] = "poll"
              \/ box # <<>> /\ box[Len(box)] = More
              => \/ \E i \in DOMAIN ticks' : ticks'[i] = "poll"
                 \/ inbox' # <<>> /\ inbox'[Len(inbox')] = More
<1> DEFINE Known == \/ \E i \in DOMAIN ticks' : ticks'[i] = "poll"
                    \/ inbox' # <<>> /\ inbox'[Len(inbox')] = More
<1>1. got \in Got /\ load \in 1 .. MaxLoads /\ GotHere
  BY DEF BridgeInv, BridgeTypeOK, Got
<1>2. CASE box = <<>>
  <2>1. inbox' = box /\ ticks' = later /\ got' = got /\ callbacks' = callbacks
    BY <1>2 DEF ProcessMessages
  <2> QED
    BY <1>1, <1>2, <2>1 DEF GotHere
<1>3. CASE box # <<>>
  <2> DEFINE m == Head(box)
             add == IF Tail(box) # <<>> THEN <<"process">>
                    ELSE IF m = More THEN <<"poll">> ELSE <<>>
  <2>1. /\ inbox' = Tail(box) /\ ticks' = later \o add
        /\ IF m = More THEN got' = got /\ callbacks' = callbacks
                       ELSE CallbackFromNative(m)
    BY <1>3 DEF ProcessMessages
  <2>2. /\ callbacks' \subseteq callbacks
        /\ \/ got' = got
           \/ /\ m # More /\ m.to \in callbacks
              /\ got' = Append(got, [result |-> m, load |-> load])
    BY <2>1 DEF CallbackFromNative
  <2>3. /\ got' \in Got /\ Tail(box) \in Box
        /\ OnceIn(got', Tail(box), q) /\ FinalIn(got', Tail(box), q, finished)
    BY <1>1, <1>3, <2>2, TakeKeepsOnce
  <2>4. \A i \in 1 .. Len(got') : made[got'[i].result.to] = got'[i].load
    <3>1. CASE got' = got
      BY <1>1, <3>1 DEF GotHere
    <3>2. CASE m.to \in callbacks /\ got' = Append(got, [result |-> m, load |-> load])
      <4> DEFINE e == [result |-> m, load |-> load]
      <4>1. made[m.to] = load
        BY <3>2 DEF BridgeInv, HandedOut
      <4>2. e.result = m /\ e.load = load
        OBVIOUS
      <4> HIDE DEF e
      <4>3. /\ Len(got') = Len(got) + 1 /\ got'[Len(got) + 1] = e /\ Len(got) \in Nat
            /\ \A i \in 1 .. Len(got) : got'[i] = got[i]
        <5>1. got \in Seq([result : Results, load : 1 .. MaxLoads])
          BY <1>1 DEF Got
        <5> QED
          BY <3>2, <5>1 DEF e
      <4> SUFFICES ASSUME NEW i \in 1 .. Len(got')
                   PROVE  made[got'[i].result.to] = got'[i].load
        OBVIOUS
      <4>4. i = Len(got) + 1 \/ i \in 1 .. Len(got)
        BY <4>3
      <4> QED
        BY <1>1, <4>1, <4>2, <4>3, <4>4 DEF GotHere
    <3> QED
      BY <2>2, <3>1, <3>2
  <2>5. add \in Seq({"process", "poll"})
    <3>1. /\ <<"process">> \in Seq({"process", "poll"}) /\ <<"poll">> \in Seq({"process", "poll"})
          /\ <<>> \in Seq({"process", "poll"})
      OBVIOUS
    <3>2. add = <<"process">> \/ add = <<"poll">> \/ add = <<>>
      OBVIOUS
    <3> HIDE DEF add
    <3> QED
      BY <3>1, <3>2
  <2>6. /\ later \o add \in Seq({"process", "poll"})
        /\ Len(later \o add) = Len(later) + Len(add)
        /\ Len(later) \in Nat /\ Len(add) \in Nat
        /\ \A i \in 1 .. Len(later) : (later \o add)[i] = later[i]
        /\ \A i \in 1 .. Len(add) : (later \o add)[Len(later) + i] = add[i]
        /\ DOMAIN later = 1 .. Len(later)
        /\ DOMAIN (later \o add) = 1 .. (Len(later) + Len(add))
    <3> HIDE DEF add
    <3> QED
      BY <2>5
  <2>7. ASSUME NEW i \in DOMAIN later, later[i] = "poll" PROVE Known
    <3>1. i \in DOMAIN ticks' /\ ticks'[i] = "poll"
      <4> HIDE DEF add
      <4> QED
        BY <2>1, <2>6, <2>7
    <3> QED
      BY <3>1
  <2>8. ASSUME box[Len(box)] = More PROVE Known
    <3>1. CASE Tail(box) # <<>>
      <4>1. Tail(box)[Len(Tail(box))] = box[Len(box)]
        BY <1>3, <3>1 DEF Box
      <4> QED
        BY <2>1, <2>8, <3>1, <4>1
    <3>2. CASE Tail(box) = <<>>
      <4>0. Len(box) = 1 /\ m = box[1]
        <5>1. box \in Seq(Results \cup {More})
          BY DEF Box
        <5>2. Len(Tail(box)) = Len(box) - 1 /\ Len(box) \in Nat /\ Len(Tail(box)) = 0
          <6>1. Len(Tail(box)) = Len(box) - 1
            BY <1>3, <5>1, HeadTailProperties
          <6>a. Len(<<>>) = 0
            OBVIOUS
          <6>2. Len(Tail(box)) = 0
            BY <3>2, <6>a
          <6> QED
            BY <5>1, <6>1, <6>2
        <5>3. Len(box) = 1
          BY <5>2
        <5> QED
          BY <1>3, <5>1, <5>3
      <4>1. Len(box) = 1 /\ m = More
        BY <2>8, <4>0
      <4>2. add = <<"poll">>
        BY <3>2, <4>1
      <4> HIDE DEF add, m
      <4>3. Len(add) = 1 /\ add[1] = "poll"
        BY <4>2
      <4>4. Len(later) + 1 \in DOMAIN ticks' /\ ticks'[Len(later) + 1] = "poll"
        BY <2>1, <2>6, <4>3
      <4> QED
        BY <4>4
    <3> QED
      BY <3>1, <3>2
  <2> HIDE DEF add, m
  <2> QED
    BY <2>1, <2>2, <2>3, <2>4, <2>6, <2>7, <2>8
<1> QED
  BY <1>2, <1>3

(* FetchKeepsOnce, from the invariant. *)
LEMMA FetchKnown ==
    ASSUME BridgeInv, queue # <<>>,
           NEW box, box = inbox \o Encode(BatchLen),
           NEW rest, rest = SubSeq(queue, BatchLen + 1, Len(queue))
    PROVE  /\ box \in Box /\ rest \in Seq(Results)
           /\ OnceIn(got, box, rest) /\ FinalIn(got, box, rest, finished)
           /\ box # <<>>
           /\ rest # <<>> => box[Len(box)] = More
<1>1. queue \in Seq(Results) /\ got \in Got /\ inbox \in Box
  BY DEF BridgeInv, BridgeTypeOK, Got, Box
<1>2. OnceIn(got, inbox, queue) /\ FinalIn(got, inbox, queue, finished)
  BY DEF BridgeInv
<1>3. /\ box \in Box /\ OnceIn(got, box, rest) /\ FinalIn(got, box, rest, finished)
      /\ Len(box) >= 1
      /\ rest # <<>> => Len(box) >= 2 /\ box[Len(box)] = More
  BY <1>1, <1>2, FetchKeepsOnce
<1>4. rest \in Seq(Results)
  BY <1>1, EncodeTakes
<1>5. box # <<>>
  <2>1. Len(<<>>) = 0
    OBVIOUS
  <2> QED
    BY <1>3, <2>1
<1> QED
  BY <1>3, <1>4, <1>5

(* Nothing is taken from an empty queue. *)
LEMMA EmptyQueueStays ==
    ASSUME queue = <<>>
    PROVE  SubSeq(queue, BatchLen + 1, Len(queue)) = <<>>
<1>1. Len(queue) = 0 /\ BatchLen = 0
  BY BridgeAssumption DEF BatchLen
<1> QED
  BY <1>1

(***************************************************************************)
(* So does pollOnce, after which the page knows of what was left in the    *)
(* queue.                                                                  *)
(***************************************************************************)
LEMMA PollKeeps ==
    ASSUME BridgeInv, NEW event \in BOOLEAN,
           NEW later \in Seq({"process", "poll"}), PollOnce(event, later)
    PROVE  /\ got' \in Got /\ callbacks' \subseteq callbacks /\ inbox' \in Box
           /\ ticks' \in Seq({"process", "poll"})
           /\ queue' \in Seq(Results)
           /\ OnceIn(got', inbox', queue') /\ FinalIn(got', inbox', queue', finished)
           /\ \A i \in 1 .. Len(got') : made[got'[i].result.to] = got'[i].load
           /\ queue = <<>> => queue' = <<>>
           /\ queue' # <<>> => \/ \E i \in DOMAIN ticks' : ticks'[i] = "poll"
                               \/ inbox' # <<>> /\ inbox'[Len(inbox')] = More
           /\ online' = IF event /\ ~ignoreNextFlush THEN ~online ELSE online
<1> DEFINE rest == SubSeq(queue, BatchLen + 1, Len(queue))
           box == inbox \o Encode(BatchLen)
<1>0. /\ queue' = rest
      /\ online' = IF event /\ ~ignoreNextFlush THEN ~online ELSE online
      /\ IF queue = <<>> THEN /\ ticks' = later /\ inbox' = inbox /\ got' = got
                              /\ callbacks' = callbacks
                         ELSE ProcessMessages(box, later)
  BY DEF PollOnce, NotifyOfFlush
<1>1. CASE queue = <<>>
  <2>1. queue' = <<>>
    BY <1>0, <1>1, EmptyQueueStays
  <2>2. ticks' = later /\ inbox' = inbox /\ got' = got /\ callbacks' = callbacks
    BY <1>0, <1>1
  <2>3. /\ got \in Got /\ inbox \in Box /\ queue' \in Seq(Results) /\ GotHere
        /\ OnceIn(got, inbox, queue) /\ FinalIn(got, inbox, queue, finished)
    BY <1>1, <2>1 DEF BridgeInv, BridgeTypeOK, Got, Box
  <2> QED
    BY <1>0, <1>1, <2>1, <2>2, <2>3 DEF GotHere
<1>2. CASE queue # <<>>
  <2> HIDE DEF rest, box
  <2>1. /\ box \in Box /\ rest \in Seq(Results)
        /\ OnceIn(got, box, rest) /\ FinalIn(got, box, rest, finished)
        /\ box # <<>>
        /\ rest # <<>> => box[Len(box)] = More
    BY <1>2, FetchKnown DEF box, rest
  <2>2. ProcessMessages(box, later)
    BY <1>0, <1>2
  <2>3. /\ got' \in Got /\ callbacks' \subseteq callbacks /\ inbox' \in Box
        /\ ticks' \in Seq({"process", "poll"})
        /\ OnceIn(got', inbox', rest) /\ FinalIn(got', inbox', rest, finished)
        /\ \A i \in 1 .. Len(got') : made[got'[i].result.to] = got'[i].load
        /\ rest # <<>> => \/ \E i \in DOMAIN ticks' : ticks'[i] = "poll"
                          \/ inbox' # <<>> /\ inbox'[Len(inbox')] = More
    BY <2>1, <2>2, ProcessKeeps
  <2> QED
    BY <1>0, <1>2, <2>1, <2>3
<1> QED
  BY <1>1, <1>2

(* Each action keeps the invariant. *)
LEMMA TickKeepsInv ==
    ASSUME BridgeInv, Tick
    PROVE  BridgeInv'
<1>0. /\ BridgeTypeOK /\ HandedOut /\ OnceIn(got, inbox, queue)
      /\ FinalIn(got, inbox, queue, finished) /\ GotHere /\ LoadingIsQuiet
      /\ EventsTellThePage /\ NoStuckMessage
  BY DEF BridgeInv
<1>1. /\ jsAt = "idle" /\ ticks # <<>>
      /\ UNCHANGED <<load, nextId, jsAt, made, enabled, ui, ignoreNextFlush, net, events,
                     overtaken, context, finished, work>>
  BY DEF Tick, pluginVars
<1>2. ticks \in Seq({"process", "poll"}) /\ Tail(ticks) \in Seq({"process", "poll"})
  BY <1>0, <1>1 DEF BridgeTypeOK
<1>3. /\ got' \in Got /\ callbacks' \subseteq callbacks /\ inbox' \in Box
      /\ ticks' \in Seq({"process", "poll"}) /\ queue' \in Seq(Results)
      /\ OnceIn(got', inbox', queue') /\ FinalIn(got', inbox', queue', finished)
      /\ \A i \in 1 .. Len(got') : made[got'[i].result.to] = got'[i].load
      /\ queue = <<>> => queue' = <<>>
      /\ online' = online
      /\ queue' # <<>> => (PageKnowsOfMore => PageKnowsOfMore')
  <2>1. CASE Head(ticks) = "poll" /\ PollOnce(FALSE, Tail(ticks))
    BY <1>2, <2>1, PollKeeps DEF PageKnowsOfMore
  <2>2. CASE /\ Head(ticks) = "process" /\ ProcessMessages(inbox, Tail(ticks))
             /\ UNCHANGED <<queue, online>>
    <3>1. inbox \in Box /\ queue \in Seq(Results)
      BY <1>0 DEF BridgeTypeOK, Box
    <3>2. ASSUME NEW i \in DOMAIN ticks, ticks[i] = "poll"
          PROVE  \E j \in DOMAIN Tail(ticks) : Tail(ticks)[j] = "poll"
      <4>1. /\ Len(ticks) \in Nat /\ DOMAIN ticks = 1 .. Len(ticks) /\ Head(ticks) = ticks[1]
            /\ DOMAIN Tail(ticks) = 1 .. (Len(ticks) - 1)
            /\ \A j \in 1 .. (Len(ticks) - 1) : Tail(ticks)[j] = ticks[j + 1]
        BY <1>1, <1>2
      <4>2. i # 1
        BY <2>2, <3>2, <4>1
      <4>3. i - 1 \in 1 .. (Len(ticks) - 1) /\ (i - 1) + 1 = i
        BY <4>1, <4>2
      <4> QED
        BY <3>2, <4>1, <4>3
    <3>3. /\ got' \in Got /\ callbacks' \subseteq callbacks /\ inbox' \in Box
          /\ ticks' \in Seq({"process", "poll"})
          /\ OnceIn(got', inbox', queue) /\ FinalIn(got', inbox', queue, finished)
          /\ \A i \in 1 .. Len(got') : made[got'[i].result.to] = got'[i].load
          /\ \/ \E i \in DOMAIN Tail(ticks) : Tail(ticks)[i] = "poll"
             \/ inbox # <<>> /\ inbox[Len(inbox)] = More
             => \/ \E i \in DOMAIN ticks' : ticks'[i] = "poll"
                \/ inbox' # <<>> /\ inbox'[Len(inbox')] = More
      BY <1>0, <1>2, <2>2, <3>1, ProcessKeeps
    <3>4. PageKnowsOfMore => PageKnowsOfMore'
      BY <3>2, <3>3 DEF PageKnowsOfMore
    <3> QED
      BY <2>2, <3>1, <3>3, <3>4
  <2> QED
    BY <2>1, <2>2 DEF Tick
<1>4. BridgeTypeOK'
  BY <1>0, <1>1, <1>3 DEF BridgeTypeOK, Got, Box
<1>5. HandedOut'
  BY <1>0, <1>1, <1>3 DEF HandedOut
<1>6. GotHere'
  BY <1>1, <1>3 DEF GotHere
<1>7. LoadingIsQuiet'
  BY <1>0, <1>1, <1>3 DEF LoadingIsQuiet
<1>8. EventsTellThePage'
  BY <1>0, <1>1, <1>3 DEF EventsTellThePage
<1>9. NoStuckMessage'
  BY <1>0, <1>1, <1>3 DEF NoStuckMessage
<1> QED
  BY <1>1, <1>3, <1>4, <1>5, <1>6, <1>7, <1>8, <1>9 DEF BridgeInv

LEMMA OnlineEventKeepsInv ==
    ASSUME BridgeInv, OnlineEvent
    PROVE  BridgeInv'
<1>0. /\ BridgeTypeOK /\ HandedOut /\ OnceIn(got, inbox, queue)
      /\ FinalIn(got, inbox, queue, finished) /\ GotHere /\ LoadingIsQuiet
      /\ EventsTellThePage /\ NoStuckMessage
  BY DEF BridgeInv
<1>1. /\ jsAt = "idle" /\ events # <<>> /\ events' = Tail(events)
      /\ UNCHANGED <<load, nextId, jsAt, made, enabled, ui, ignoreNextFlush, net,
                     overtaken, context, finished, work>>
  BY DEF OnlineEvent, pluginVars
<1>2. ticks \in Seq({"process", "poll"}) /\ TRUE \in BOOLEAN
  BY <1>0 DEF BridgeTypeOK
<1>3. /\ got' \in Got /\ callbacks' \subseteq callbacks /\ inbox' \in Box
      /\ ticks' \in Seq({"process", "poll"}) /\ queue' \in Seq(Results)
      /\ OnceIn(got', inbox', queue') /\ FinalIn(got', inbox', queue', finished)
      /\ \A i \in 1 .. Len(got') : made[got'[i].result.to] = got'[i].load
      /\ queue = <<>> => queue' = <<>>
      /\ queue' # <<>> => PageKnowsOfMore'
      /\ online' = IF ~ignoreNextFlush THEN ~online ELSE online
  BY <1>2, PollKeeps DEF OnlineEvent, PageKnowsOfMore
<1>3a. online \in BOOLEAN /\ net \in BOOLEAN /\ events \in Seq({"reset", "avail"})
  BY <1>0 DEF BridgeTypeOK
<1>4. BridgeTypeOK'
  <2>1. events' \in Seq({"reset", "avail"})
    BY <1>1, <1>3a
  <2>2. online' \in BOOLEAN
    BY <1>3, <1>3a
  <2> QED
    BY <1>0, <1>1, <1>3, <2>1, <2>2 DEF BridgeTypeOK, Got, Box
<1>5. HandedOut'
  BY <1>0, <1>1, <1>3 DEF HandedOut
<1>6. GotHere'
  BY <1>1, <1>3 DEF GotHere
<1>7. LoadingIsQuiet'
  BY <1>0, <1>1, <1>3 DEF LoadingIsQuiet
<1>8. EventsTellThePage'
  <2> SUFFICES ASSUME enabled', ~overtaken' PROVE EventsTellThePage'
    BY DEF EventsTellThePage
  <2>1. \/ events = <<"reset">> /\ ignoreNextFlush /\ online # net
        \/ events = <<"avail">> /\ ~ignoreNextFlush /\ online = net
    BY <1>0, <1>1 DEF EventsTellThePage
  <2>2. events' = <<>>
    BY <1>1, <2>1
  <2>3. online' # net'
    BY <1>1, <1>3, <1>3a, <2>1
  <2> QED
    BY <2>2, <2>3 DEF EventsTellThePage
<1>9. NoStuckMessage'
  BY <1>3 DEF NoStuckMessage
<1> QED
  BY <1>1, <1>3, <1>4, <1>5, <1>6, <1>7, <1>8, <1>9 DEF BridgeInv

LEMMA ExecPopKeepsInv ==
    ASSUME BridgeInv, ExecPop
    PROVE  BridgeInv'
<1>0. /\ BridgeTypeOK /\ HandedOut /\ OnceIn(got, inbox, queue)
      /\ FinalIn(got, inbox, queue, finished) /\ GotHere /\ LoadingIsQuiet
      /\ EventsTellThePage /\ NoStuckMessage
  BY DEF BridgeInv
<1>1. /\ jsAt = "inPlugin" /\ jsAt' = "popped" /\ online' = online
      /\ UNCHANGED <<load, nextId, callbacks, made, got, enabled, ui, ignoreNextFlush,
                     net, events, overtaken, context, finished, work>>
  BY DEF ExecPop, pluginVars, NotifyOfFlush
<1>2. /\ inbox' \in Box /\ ticks' \in Seq({"process", "poll"}) /\ queue' \in Seq(Results)
      /\ OnceIn(got, inbox', queue') /\ FinalIn(got, inbox', queue', finished)
      /\ queue = <<>> => queue' = <<>>
  <2>0. ticks \in Seq({"process", "poll"})
    BY <1>0 DEF BridgeTypeOK
  <2>1. CASE queue = <<>>
    <3>1. UNCHANGED <<inbox, ticks, queue>>
      BY <2>1 DEF ExecPop
    <3> QED
      BY <1>0, <2>1, <3>1 DEF BridgeTypeOK, Box
  <2>2. CASE queue # <<>>
    <3> DEFINE box == inbox \o Encode(BatchLen)
               rest == SubSeq(queue, BatchLen + 1, Len(queue))
    <3>1. inbox' = box /\ queue' = rest /\ ticks' = Append(ticks, "process")
      BY <2>2 DEF ExecPop, PushBatch
    <3> HIDE DEF box, rest
    <3>2. /\ box \in Box /\ rest \in Seq(Results)
          /\ OnceIn(got, box, rest) /\ FinalIn(got, box, rest, finished)
      BY <2>2, FetchKnown DEF box, rest
    <3>3. ticks' \in Seq({"process", "poll"})
      BY <2>0, <3>1
    <3> QED
      BY <2>2, <3>1, <3>2, <3>3
  <2> QED
    BY <2>1, <2>2
<1>4. BridgeTypeOK'
  BY <1>0, <1>1, <1>2 DEF BridgeTypeOK, Box
<1>5. HandedOut'
  BY <1>0, <1>1 DEF HandedOut
<1>6. GotHere'
  BY <1>0, <1>1 DEF GotHere
<1>7. LoadingIsQuiet'
  BY <1>0, <1>1, <1>2 DEF LoadingIsQuiet
<1>8. EventsTellThePage'
  BY <1>0, <1>1 DEF EventsTellThePage
<1>9. NoStuckMessage'
  BY <1>1 DEF NoStuckMessage
<1> QED
  BY <1>1, <1>2, <1>4, <1>5, <1>6, <1>7, <1>8, <1>9 DEF BridgeInv

(* A result for a callback that had none yet is the only one. *)
LEMMA EnqueueKeepsOnce ==
    ASSUME got \in Got, inbox \in Box, queue \in Seq(Results),
           OnceIn(got, inbox, queue), FinalIn(got, inbox, queue, finished),
           NEW m \in Results, m.to \notin finished
    PROVE  LET q == Append(queue, m)
           IN  /\ q \in Seq(Results) /\ OnceIn(got, inbox, q)
               /\ FinalIn(got, inbox, q, finished \cup {m.to})
<1> DEFINE q == Append(queue, m)
           K == Len(queue)
<1>1. /\ q \in Seq(Results) /\ Len(q) = K + 1 /\ K \in Nat /\ q[K + 1] = m
      /\ \A i \in 1 .. K : q[i] = queue[i]
  OBVIOUS
<1>2. m.to # 0 /\ More.to = 0
  BY ResultNotMore
<1> HIDE DEF q, K
<1>3. ASSUME NEW i \in 1 .. Len(q) PROVE (i \in 1 .. K /\ q[i] = queue[i]) \/ (i = K + 1 /\ q[i] = m)
  BY <1>1
<1>4. /\ \A i \in 1 .. Len(got) : got[i].result.to \in finished
      /\ \A i \in 1 .. Len(inbox) : inbox[i] = More \/ inbox[i].to \in finished
      /\ \A i \in 1 .. K : queue[i].to \in finished
  BY DEF FinalIn, K
<1>5. /\ \A i, j \in 1 .. Len(got) : got[i].result.to = got[j].result.to => i = j
      /\ \A i, j \in 1 .. Len(inbox) : inbox[i] # More /\ inbox[i].to = inbox[j].to => i = j
      /\ \A i, j \in 1 .. K : queue[i].to = queue[j].to => i = j
      /\ \A i \in 1 .. Len(got) : \A j \in 1 .. Len(inbox) : got[i].result.to # inbox[j].to
      /\ \A i \in 1 .. Len(got) : \A j \in 1 .. K : got[i].result.to # queue[j].to
      /\ \A i \in 1 .. Len(inbox) : \A j \in 1 .. K : inbox[i].to # queue[j].to
  BY DEF OnceIn, K
<1>6. \A i, j \in 1 .. Len(q) : q[i].to = q[j].to => i = j
  BY <1>3, <1>4, <1>5
<1>7. \A i \in 1 .. Len(got) : \A j \in 1 .. Len(q) : got[i].result.to # q[j].to
  BY <1>3, <1>4, <1>5
<1>8. \A i \in 1 .. Len(inbox) : \A j \in 1 .. Len(q) : inbox[i].to # q[j].to
  BY <1>2, <1>3, <1>4, <1>5
<1>9. OnceIn(got, inbox, q)
  BY <1>5, <1>6, <1>7, <1>8 DEF OnceIn
<1>10. FinalIn(got, inbox, q, finished \cup {m.to})
  <2>1. \A i \in 1 .. Len(q) : q[i].to \in finished \cup {m.to}
    BY <1>3, <1>4
  <2> QED
    BY <1>4, <2>1 DEF FinalIn
<1> QED
  BY <1>1, <1>9, <1>10 DEF q

(* sendPluginResult: nothing for a context that is finished. *)
LEMMA SendResultKeeps ==
    ASSUME BridgeInv, NEW call \in Ids, context' \in Ids, SendResult(call), enabled' = enabled
    PROVE  /\ finished' \in SUBSET (finished \cup {context'}) /\ finished \subseteq finished'
           /\ queue' \in Seq(Results) /\ ui' \in Nat
           /\ OnceIn(got, inbox, queue') /\ FinalIn(got, inbox, queue', finished')
           /\ ~enabled => queue' = queue
           /\ UNCHANGED <<queue, ui>> \/ jsAt' \in {"inPlugin", "popped"} \/ ui' > 0
<1>1. /\ got \in Got /\ inbox \in Box /\ queue \in Seq(Results) /\ ui \in Nat
      /\ OnceIn(got, inbox, queue) /\ FinalIn(got, inbox, queue, finished)
  BY DEF BridgeInv, BridgeTypeOK, Got, Box
<1>2. CASE context' \in finished
  <2>1. UNCHANGED <<finished, queue, ui>>
    BY <1>2 DEF SendResult
  <2> QED
    BY <1>1, <2>1
<1>3. CASE context' \notin finished
  <2> DEFINE m == [to |-> context', of |-> call]
             c == context'
  <2>0. m \in Results /\ m.to = c
    BY DEF Results
  <2>1. finished' = finished \cup {c} /\ Enqueue(m)
    BY <1>3 DEF SendResult, Finish
  <2> HIDE DEF m, c
  <2>2. CASE enabled
    <3>1. /\ queue' = Append(queue, m)
          /\ (ui' = ui /\ jsAt' \in {"inPlugin", "popped"}) \/ ui' = ui + 1
      BY <2>1, <2>2 DEF Enqueue, Notify
    <3>2. /\ Append(queue, m) \in Seq(Results) /\ OnceIn(got, inbox, Append(queue, m))
          /\ FinalIn(got, inbox, Append(queue, m), finished \cup {m.to})
      <4>1. m.to \notin finished
        BY <1>3, <2>0 DEF c
      <4> QED
        BY <1>1, <2>0, <4>1, EnqueueKeepsOnce
    <3>3. ui' \in Nat /\ (ui' = ui + 1 => ui' > 0)
      BY <1>1, <3>1
    <3> QED
      BY <2>0, <2>1, <2>2, <3>1, <3>2, <3>3 DEF c
  <2>3. CASE ~enabled
    <3>1. UNCHANGED <<queue, ui>>
      BY <2>1, <2>3 DEF Enqueue
    <3>2. FinalIn(got, inbox, queue', finished')
      BY <1>1, <2>1, <3>1 DEF FinalIn
    <3> QED
      BY <1>1, <2>1, <3>1, <3>2 DEF c
  <2> QED
    BY <2>2, <2>3
<1> QED
  BY <1>2, <1>3

LEMMA AnswerKeepsInv ==
    ASSUME BridgeInv, NEW call \in Ids, Answer(call)
    PROVE  BridgeInv'
<1>0. /\ BridgeTypeOK /\ HandedOut /\ OnceIn(got, inbox, queue)
      /\ FinalIn(got, inbox, queue, finished) /\ GotHere /\ LoadingIsQuiet
      /\ EventsTellThePage /\ NoStuckMessage
  BY DEF BridgeInv
<1>1. /\ call \in work /\ work' = work \ {call} /\ SendResult(call)
      /\ UNCHANGED <<load, nextId, callbacks, inbox, ticks, jsAt, made, got, context,
                     enabled, online, ignoreNextFlush, net, events, overtaken>>
  BY DEF Answer, jsVars
<1>2. /\ context \in 1 .. (nextId - 1) /\ context' = context /\ context \in Ids
      /\ nextId \in Nat
  BY <1>0, <1>1, BridgeAssumption DEF HandedOut, BridgeTypeOK, Ids
<1>3. /\ finished' \subseteq finished \cup {context'} /\ finished \subseteq finished'
      /\ queue' \in Seq(Results) /\ ui' \in Nat
      /\ OnceIn(got, inbox, queue') /\ FinalIn(got, inbox, queue', finished')
      /\ ~enabled => queue' = queue
      /\ UNCHANGED <<queue, ui>> \/ jsAt' \in {"inPlugin", "popped"} \/ ui' > 0
  BY <1>1, <1>2, SendResultKeeps
<1>4. BridgeTypeOK'
  BY <1>0, <1>1, <1>2, <1>3 DEF BridgeTypeOK
<1>5. HandedOut'
  BY <1>0, <1>1, <1>2, <1>3 DEF HandedOut
<1>6. GotHere'
  BY <1>0, <1>1 DEF GotHere
<1>7. LoadingIsQuiet'
  BY <1>0, <1>1, <1>3 DEF LoadingIsQuiet
<1>8. EventsTellThePage'
  BY <1>0, <1>1 DEF EventsTellThePage
<1>9. NoStuckMessage'
  BY <1>0, <1>1, <1>3 DEF NoStuckMessage, PageKnowsOfMore
<1> QED
  BY <1>1, <1>3, <1>4, <1>5, <1>6, <1>7, <1>8, <1>9 DEF BridgeInv

LEMMA ExecKeepsInv ==
    ASSUME BridgeInv, NEW kind, NEW lost \in {0, 1}, Exec(kind, lost)
    PROVE  BridgeInv'
<1>0. /\ BridgeTypeOK /\ HandedOut /\ OnceIn(got, inbox, queue)
      /\ FinalIn(got, inbox, queue, finished) /\ GotHere /\ LoadingIsQuiet
      /\ EventsTellThePage /\ NoStuckMessage
  BY DEF BridgeInv
<1> DEFINE id == nextId + lost
           here == [i \in 1 .. (1 + lost) |-> load]
<1>1. /\ jsAt = "idle" /\ id <= MaxCalls /\ nextId' = id + 1
      /\ callbacks' = callbacks \cup nextId .. id
      /\ made' = made \o here
      /\ jsAt' = "inPlugin" /\ Execute(id, kind)
      /\ UNCHANGED <<load, inbox, ticks, got, enabled, online, ignoreNextFlush, net, events,
                     overtaken>>
  BY DEF Exec
<1>2. /\ nextId \in 1 .. (MaxCalls + 1) /\ nextId \in Nat /\ MaxCalls \in Nat /\ id \in Ids
      /\ id \in Nat /\ id >= nextId
      /\ load \in 1 .. MaxLoads /\ made \in Seq(1 .. MaxLoads) /\ Len(made) = nextId - 1
  BY <1>0, <1>1, BridgeAssumption DEF BridgeTypeOK, Ids
<1>3. /\ here \in Seq(1 .. MaxLoads) /\ Len(here) = 1 + lost
      /\ \A i \in 1 .. (1 + lost) : here[i] = load
  BY <1>2
<1>4. /\ made' \in Seq(1 .. MaxLoads) /\ Len(made') = nextId' - 1
      /\ \A i \in 1 .. (nextId - 1) : made'[i] = made[i]
      /\ \A i \in nextId .. id : made'[i] = load
  <2> HIDE DEF here
  <2>1. /\ made \o here \in Seq(1 .. MaxLoads) /\ Len(made \o here) = Len(made) + (1 + lost)
        /\ \A i \in 1 .. Len(made) : (made \o here)[i] = made[i]
        /\ \A i \in 1 .. (1 + lost) : (made \o here)[Len(made) + i] = here[i]
    BY <1>2, <1>3
  <2>2. ASSUME NEW i \in nextId .. id PROVE made'[i] = load
    <3>1. i - Len(made) \in 1 .. (1 + lost) /\ Len(made) + (i - Len(made)) = i
      BY <1>2
    <3> QED
      BY <1>1, <1>3, <2>1, <3>1
  <2>3. Len(made') = nextId' - 1
    BY <1>1, <1>2, <2>1
  <2>4. \A i \in 1 .. (nextId - 1) : made'[i] = made[i]
    BY <1>1, <1>2, <2>1
  <2> HIDE DEF id
  <2> QED
    BY <1>1, <2>1, <2>2, <2>3, <2>4
<1>5. context' = id /\ context' \in Ids
  BY <1>1, <1>2 DEF Execute
<1> HIDE DEF id, here
<1>6. /\ finished' \subseteq finished \cup {context'} /\ finished \subseteq finished'
      /\ queue' \in Seq(Results) /\ ui' \in Nat
      /\ OnceIn(got, inbox, queue') /\ FinalIn(got, inbox, queue', finished')
      /\ work' \subseteq work \cup {id}
  <2>1. CASE kind = "sync" /\ SendResult(id) /\ UNCHANGED work
    BY <1>1, <1>2, <1>5, <2>1, SendResultKeeps
  <2>2. CASE UNCHANGED <<finished, queue, ui>>
    <3>1. work' \subseteq work \cup {id}
      BY <1>1, <2>2 DEF Execute
    <3> QED
      BY <1>0, <2>2, <3>1 DEF BridgeTypeOK
  <2> QED
    BY <1>1, <2>1, <2>2 DEF Execute
<1>7. BridgeTypeOK'
  <2>1. callbacks' \subseteq Ids
    BY <1>0, <1>1, <1>2 DEF BridgeTypeOK, Ids
  <2>2. nextId' \in 1 .. (MaxCalls + 1)
    BY <1>1, <1>2
  <2>3. finished' \subseteq Ids /\ work' \subseteq Ids
    BY <1>0, <1>2, <1>5, <1>6 DEF BridgeTypeOK
  <2> QED
    BY <1>0, <1>1, <1>4, <1>5, <1>6, <2>1, <2>2, <2>3 DEF BridgeTypeOK
<1>8. HandedOut'
  <2>0. 1 .. (nextId' - 1) = 1 .. id /\ 1 .. (nextId - 1) \subseteq 1 .. id /\ id \in 1 .. id
    BY <1>1, <1>2
  <2>1. finished' \subseteq 1 .. (nextId' - 1) /\ work' \subseteq 1 .. (nextId' - 1)
    BY <1>0, <1>5, <1>6, <2>0 DEF HandedOut
  <2>2. callbacks' \subseteq 1 .. (nextId' - 1)
    BY <1>0, <1>1, <1>2, <2>0 DEF HandedOut
  <2>3. context' \in 0 .. (nextId' - 1) /\ context' # 0
    BY <1>1, <1>2, <1>5
  <2>4. ASSUME NEW i \in callbacks' PROVE made'[i] = load'
    <3>1. i \in nextId .. id \/ (i \in callbacks /\ i \in 1 .. (nextId - 1))
      BY <1>0, <1>1 DEF HandedOut
    <3> QED
      BY <1>0, <1>1, <1>4, <3>1 DEF HandedOut
  <2> QED
    BY <2>1, <2>2, <2>3, <2>4 DEF HandedOut
<1>9. GotHere'
  <2> SUFFICES ASSUME NEW i \in 1 .. Len(got) PROVE made'[got[i].result.to] = got[i].load
    BY <1>1 DEF GotHere
  <2>1. got[i].result.to \in 1 .. (nextId - 1)
    BY <1>0 DEF FinalIn, HandedOut
  <2> QED
    BY <1>0, <1>4, <2>1 DEF GotHere
<1>10. LoadingIsQuiet'
  BY <1>0, <1>1 DEF LoadingIsQuiet
<1>11. EventsTellThePage'
  BY <1>0, <1>1 DEF EventsTellThePage
<1>12. NoStuckMessage'
  BY <1>1 DEF NoStuckMessage
<1> QED
  BY <1>1, <1>6, <1>7, <1>8, <1>9, <1>10, <1>11, <1>12 DEF BridgeInv

LEMMA ExecReturnKeepsInv ==
    ASSUME BridgeInv, ExecReturn
    PROVE  BridgeInv'
<1>0. /\ BridgeTypeOK /\ HandedOut /\ OnceIn(got, inbox, queue)
      /\ FinalIn(got, inbox, queue, finished) /\ GotHere /\ LoadingIsQuiet
      /\ EventsTellThePage /\ NoStuckMessage
  BY DEF BridgeInv
<1>1. /\ jsAt = "popped" /\ jsAt' = "idle"
      /\ UNCHANGED <<load, nextId, callbacks, inbox, ticks, made, got, enabled, queue, online,
                     ignoreNextFlush, net, events, overtaken, context, finished, work>>
  BY DEF ExecReturn, pluginVars
<1>2. ui' \in Nat /\ (queue # <<>> => ui' > 0)
  BY <1>0 DEF ExecReturn, Resume, Notify, BridgeTypeOK
<1>4. BridgeTypeOK'
  BY <1>0, <1>1, <1>2 DEF BridgeTypeOK
<1>5. HandedOut'
  BY <1>0, <1>1 DEF HandedOut
<1>6. GotHere'
  BY <1>0, <1>1 DEF GotHere
<1>7. LoadingIsQuiet'
  BY <1>0, <1>1 DEF LoadingIsQuiet
<1>8. EventsTellThePage'
  BY <1>0, <1>1 DEF EventsTellThePage
<1>9. NoStuckMessage'
  BY <1>1, <1>2 DEF NoStuckMessage
<1> QED
  BY <1>0, <1>1, <1>4, <1>5, <1>6, <1>7, <1>8, <1>9 DEF BridgeInv

LEMMA RunAvailKeepsInv ==
    ASSUME BridgeInv, RunAvail
    PROVE  BridgeInv'
<1>0. /\ BridgeTypeOK /\ HandedOut /\ OnceIn(got, inbox, queue)
      /\ FinalIn(got, inbox, queue, finished) /\ GotHere /\ LoadingIsQuiet
      /\ EventsTellThePage /\ NoStuckMessage
  BY DEF BridgeInv
<1>1. /\ ui > 0 /\ ui' = ui - 1
      /\ UNCHANGED <<load, nextId, callbacks, inbox, ticks, jsAt, made, got, context, finished,
                     work, enabled, queue, online>>
  BY DEF RunAvail, jsVars, pluginVars
<1>2. ui' \in Nat /\ events \in Seq({"reset", "avail"}) /\ online \in BOOLEAN /\ net \in BOOLEAN
  BY <1>0, <1>1 DEF BridgeTypeOK
<1>3. CASE queue = <<>>
  <2>1. UNCHANGED <<ignoreNextFlush, net, events, overtaken>>
    BY <1>3 DEF RunAvail
  <2>2. BridgeTypeOK'
    BY <1>0, <1>1, <1>2, <2>1 DEF BridgeTypeOK
  <2>3. EventsTellThePage'
    BY <1>0, <1>1, <2>1 DEF EventsTellThePage
  <2>4. NoStuckMessage'
    BY <1>1, <1>3 DEF NoStuckMessage
  <2>5. HandedOut' /\ GotHere' /\ LoadingIsQuiet'
    BY <1>0, <1>1, <2>1 DEF HandedOut, GotHere, LoadingIsQuiet
  <2> QED
    BY <1>0, <1>1, <2>2, <2>3, <2>4, <2>5 DEF BridgeInv
<1>4. CASE queue # <<>>
  <2>1. /\ ignoreNextFlush' = FALSE /\ net' = online
        /\ events' = IF net # online THEN Append(events, "avail") ELSE events
        /\ overtaken' = (overtaken \/ \E i \in DOMAIN events : events[i] = "reset")
    BY <1>4 DEF RunAvail
  <2>2. events' \in Seq({"reset", "avail"})
    BY <1>2, <2>1
  <2>3. BridgeTypeOK'
    <3>1. overtaken' \in BOOLEAN
      BY <1>0, <2>1 DEF BridgeTypeOK
    <3> QED
      BY <1>0, <1>1, <1>2, <2>1, <2>2, <3>1 DEF BridgeTypeOK
  <2>4. ASSUME enabled', ~overtaken'
        PROVE  events' = <<"avail">> /\ ~ignoreNextFlush' /\ online' = net'
    <3>1. ~overtaken /\ ~ \E i \in DOMAIN events : events[i] = "reset"
      BY <2>1, <2>4
    <3>2. events # <<"reset">>
      <4>1. 1 \in DOMAIN <<"reset">> /\ <<"reset">>[1] = "reset"
        OBVIOUS
      <4> QED
        BY <3>1, <4>1
    <3>3. \/ events = <<>> /\ online # net
          \/ events = <<"avail">> /\ ~ignoreNextFlush /\ online = net
      BY <1>0, <1>1, <2>4, <3>1, <3>2 DEF EventsTellThePage
    <3>4. events' = <<"avail">>
      <4>1. Append(<<>>, "avail") = <<"avail">>
        OBVIOUS
      <4> QED
        BY <2>1, <3>3, <4>1
    <3> QED
      BY <1>1, <2>1, <3>4
  <2>5. EventsTellThePage'
    BY <2>4 DEF EventsTellThePage
  <2>6. NoStuckMessage'
    <3> SUFFICES ASSUME enabled', ~overtaken'
                 PROVE  \E i \in DOMAIN events' : events'[i] = "avail"
      BY DEF NoStuckMessage
    <3>1. 1 \in DOMAIN <<"avail">> /\ <<"avail">>[1] = "avail"
      OBVIOUS
    <3> QED
      BY <2>4, <3>1
  <2>7. HandedOut' /\ GotHere'
    BY <1>0, <1>1 DEF HandedOut, GotHere
  <2>8. LoadingIsQuiet'
    BY <1>0, <1>1, <1>4 DEF LoadingIsQuiet
  <2> QED
    BY <1>0, <1>1, <2>3, <2>5, <2>6, <2>7, <2>8 DEF BridgeInv
<1> QED
  BY <1>3, <1>4

LEMMA InitBridgeKeepsInv ==
    ASSUME BridgeInv, InitBridge
    PROVE  BridgeInv'
<1>0. /\ BridgeTypeOK /\ HandedOut /\ OnceIn(got, inbox, queue)
      /\ FinalIn(got, inbox, queue, finished) /\ GotHere /\ LoadingIsQuiet
  BY DEF BridgeInv
<1>1. /\ jsAt = "loading" /\ jsAt' = "idle" /\ enabled' = TRUE
      /\ online' = FALSE /\ ignoreNextFlush' = TRUE /\ net' = TRUE /\ overtaken' = FALSE
      /\ events' = IF net THEN events ELSE Append(events, "reset")
      /\ UNCHANGED <<load, nextId, callbacks, inbox, ticks, made, got, queue, ui, context,
                     finished, work>>
  BY DEF InitBridge, pluginVars
<1>2. events = <<>> /\ queue = <<>>
  BY <1>0, <1>1 DEF LoadingIsQuiet
<1>3. events' = <<>> \/ events' = <<"reset">>
  <2>1. Append(<<>>, "reset") = <<"reset">>
    OBVIOUS
  <2> QED
    BY <1>1, <1>2, <2>1
<1>4. BridgeTypeOK'
  <2>1. <<>> \in Seq({"reset", "avail"}) /\ <<"reset">> \in Seq({"reset", "avail"})
    OBVIOUS
  <2>2. events' \in Seq({"reset", "avail"})
    BY <1>3, <2>1
  <2> QED
    BY <1>0, <1>1, <2>2 DEF BridgeTypeOK
<1>5. HandedOut' /\ GotHere'
  BY <1>0, <1>1 DEF HandedOut, GotHere
<1>6. LoadingIsQuiet'
  BY <1>1 DEF LoadingIsQuiet
<1>7. EventsTellThePage'
  BY <1>1, <1>3 DEF EventsTellThePage
<1>8. NoStuckMessage'
  BY <1>1, <1>2 DEF NoStuckMessage
<1> QED
  BY <1>0, <1>1, <1>4, <1>5, <1>6, <1>7, <1>8 DEF BridgeInv

LEMMA ReloadKeepsInv ==
    ASSUME BridgeInv, Reload
    PROVE  BridgeInv'
<1>0. /\ BridgeTypeOK /\ HandedOut /\ OnceIn(got, inbox, queue)
      /\ FinalIn(got, inbox, queue, finished) /\ GotHere
  BY DEF BridgeInv
<1>1. /\ jsAt = "idle" /\ load < MaxLoads /\ load' = load + 1
      /\ callbacks' = {} /\ inbox' = <<>> /\ ticks' = <<>> /\ jsAt' = "loading"
      /\ enabled' = FALSE /\ queue' = <<>> /\ events' = <<>>
      /\ UNCHANGED <<nextId, made, got, ui, online, ignoreNextFlush, net, overtaken, context,
                     finished, work>>
  BY DEF Reload, FreshIds, pluginVars
<1>2. Len(<<>>) = 0
  OBVIOUS
<1>3. 1 .. 0 = {}
  OBVIOUS
<1>4. OnceIn(got', inbox', queue') /\ FinalIn(got', inbox', queue', finished')
  <2>1. \A i \in 1 .. Len(inbox') : FALSE
    BY <1>1, <1>2, <1>3
  <2>2. \A i \in 1 .. Len(queue') : FALSE
    BY <1>1, <1>2, <1>3
  <2> QED
    BY <1>0, <1>1, <2>1, <2>2 DEF OnceIn, FinalIn
<1>5. BridgeTypeOK'
  <2>1. load' \in 1 .. MaxLoads
    BY <1>0, <1>1, BridgeAssumption DEF BridgeTypeOK
  <2>2. /\ inbox' \in Seq(Results \cup {More}) /\ ticks' \in Seq({"process", "poll"})
        /\ queue' \in Seq(Results) /\ events' \in Seq({"reset", "avail"})
    BY <1>1
  <2> QED
    BY <1>0, <1>1, <2>1, <2>2 DEF BridgeTypeOK
<1>6. HandedOut' /\ GotHere'
  BY <1>0, <1>1 DEF HandedOut, GotHere
<1>7. LoadingIsQuiet'
  BY <1>1 DEF LoadingIsQuiet
<1>8. EventsTellThePage' /\ NoStuckMessage'
  BY <1>1 DEF EventsTellThePage, NoStuckMessage
<1> QED
  BY <1>4, <1>5, <1>6, <1>7, <1>8 DEF BridgeInv

(* The invariant is inductive. *)
LEMMA BridgeInvInductive ==
    /\ BridgeInit => BridgeInv
    /\ BridgeInv /\ [BridgeNext]_bridgeVars => BridgeInv'
<1>1. ASSUME BridgeInit PROVE BridgeInv
  <2>0. /\ load = 1 /\ nextId = 1 /\ callbacks = {} /\ inbox = <<>> /\ ticks = <<>>
        /\ jsAt = "loading" /\ enabled = FALSE /\ queue = <<>> /\ ui = 0
        /\ online = FALSE /\ ignoreNextFlush = FALSE /\ net = TRUE
        /\ events = <<>> /\ overtaken = FALSE /\ context = 0 /\ finished = {}
        /\ work = {} /\ made = <<>> /\ got = <<>>
    BY <1>1 DEF BridgeInit
  <2>1. BridgeTypeOK
    <3>1. Len(made) = nextId - 1
      BY <2>0
    <3>2. load \in 1 .. MaxLoads /\ nextId \in 1 .. (MaxCalls + 1)
      BY <2>0, BridgeAssumption
    <3>3. /\ inbox \in Seq(Results \cup {More}) /\ ticks \in Seq({"process", "poll"})
          /\ queue \in Seq(Results) /\ events \in Seq({"reset", "avail"})
          /\ made \in Seq(1 .. MaxLoads)
          /\ got \in Seq([result : Results, load : 1 .. MaxLoads])
      BY <2>0
    <3> QED
      BY <2>0, <3>1, <3>2, <3>3 DEF BridgeTypeOK
  <2>2. \A s : s = <<>> => 1 .. Len(s) = {}
    BY DEF BridgeInit
  <2>3. OnceIn(got, inbox, queue) /\ FinalIn(got, inbox, queue, finished) /\ GotHere
    BY <2>0, <2>2 DEF OnceIn, FinalIn, GotHere
  <2>4. HandedOut /\ LoadingIsQuiet
    BY <2>0 DEF HandedOut, LoadingIsQuiet
  <2>5. EventsTellThePage /\ NoStuckMessage
    BY <2>0 DEF EventsTellThePage, NoStuckMessage
  <2> QED
    BY <2>1, <2>3, <2>4, <2>5 DEF BridgeInv
<1>2. ASSUME BridgeInv, [BridgeNext]_bridgeVars PROVE BridgeInv'
  <2>1. CASE InitBridge
    BY <1>2, <2>1, InitBridgeKeepsInv
  <2>2. CASE Reload
    BY <1>2, <2>2, ReloadKeepsInv
  <2>3. ASSUME NEW kind \in Kinds, NEW lost \in {0, 1}, Exec(kind, lost)
        PROVE  BridgeInv'
    BY <1>2, <2>3, ExecKeepsInv
  <2>4. CASE ExecPop
    BY <1>2, <2>4, ExecPopKeepsInv
  <2>5. CASE ExecReturn
    BY <1>2, <2>5, ExecReturnKeepsInv
  <2>6. ASSUME NEW call \in Ids, Answer(call)
        PROVE  BridgeInv'
    BY <1>2, <2>6, AnswerKeepsInv
  <2>7. CASE Tick
    BY <1>2, <2>7, TickKeepsInv
  <2>8. CASE OnlineEvent
    BY <1>2, <2>8, OnlineEventKeepsInv
  <2>9. CASE RunAvail
    BY <1>2, <2>9, RunAvailKeepsInv
  <2>10. CASE UNCHANGED bridgeVars
    BY <1>2, <2>10
       DEF bridgeVars, jsVars, nativeVars, pluginVars, BridgeInv, BridgeTypeOK, HandedOut,
           OnceIn, FinalIn, GotHere, LoadingIsQuiet, EventsTellThePage, NoStuckMessage,
           PageKnowsOfMore
  <2> QED
    BY <1>2, <2>1, <2>2, <2>3, <2>4, <2>5, <2>6, <2>7, <2>8, <2>9, <2>10 DEF BridgeNext
<1> QED
  BY <1>1, <1>2

LEMMA BridgeInvHolds == BridgeSpec => []BridgeInv
BY BridgeInvInductive, PTL DEF BridgeSpec

-----------------------------------------------------------------------------
(***************************************************************************)
(* BridgeTypeCorrect: the state of the bridge is well formed; each id that *)
(* was handed out belongs to one load of the page.                         *)
(***************************************************************************)
THEOREM BridgeTypeCorrect == BridgeSpec => []BridgeTypeOK
<1>1. BridgeInv => BridgeTypeOK
  BY DEF BridgeInv
<1> QED
  BY <1>1, BridgeInvHolds, PTL

(***************************************************************************)
(* BridgeOneResultPerCall: however messages are cut into batches, however  *)
(* polls, online events, reloads and late answers interleave, no callback  *)
(* is called twice, and none by the answer to a call of an earlier page.   *)
(***************************************************************************)
THEOREM BridgeOneResultPerCall == BridgeSpec => []OneResultPerCall
<1>1. BridgeInv => OneResultPerCall
  <2> SUFFICES ASSUME BridgeInv PROVE OneResultPerCall
    OBVIOUS
  <2>1. DOMAIN got = 1 .. Len(got)
    BY DEF BridgeInv, BridgeTypeOK
  <2> QED
    BY <2>1 DEF BridgeInv, OnceIn, GotHere, OneResultPerCall
<1> QED
  BY <1>1, BridgeInvHolds, PTL

(***************************************************************************)
(* BridgeEventsTellThePage: as long as no message overtakes a reset, the   *)
(* next "network available" set for a message differs from what the        *)
(* WebView has, so that it fires an event.                                 *)
(***************************************************************************)
THEOREM BridgeEventsTellThePage == BridgeSpec => []EventsTellThePage
<1>1. BridgeInv => EventsTellThePage
  BY DEF BridgeInv
<1> QED
  BY <1>1, BridgeInvHolds, PTL

(***************************************************************************)
(* BridgeNoStuckMessage: a message in the queue is never left without      *)
(* something under way that makes the page fetch it, but for that one      *)
(* race.                                                                   *)
(***************************************************************************)
THEOREM BridgeNoStuckMessage == BridgeSpec => []NoStuckMessage
<1>1. BridgeInv => NoStuckMessage
  BY DEF BridgeInv
<1> QED
  BY <1>1, BridgeInvHolds, PTL

-----------------------------------------------------------------------------
(* Moving a batch changes nothing of what is under way. *)
LEMMA UnderWayAfterFetch ==
    ASSUME BridgeInv, queue # <<>>,
           NEW box, box = inbox \o Encode(BatchLen),
           NEW rest, rest = SubSeq(queue, BatchLen + 1, Len(queue))
    PROVE  ResultsIn(box) \o rest = UnderWay
<1> DEFINE batch == Encode(BatchLen)
<1>1. inbox \in Box /\ queue \in Seq(Results)
  BY DEF BridgeInv, BridgeTypeOK, Box
<1>2. batch \in Box /\ rest \in Seq(Results) /\ ResultsIn(batch) \o rest = queue
  BY <1>1, EncodeTakes
<1> HIDE DEF batch
<1>3. /\ ResultsIn(inbox \o batch) = ResultsIn(inbox) \o ResultsIn(batch)
      /\ ResultsIn(inbox) \in Seq(Results) /\ ResultsIn(batch) \in Seq(Results)
  BY <1>1, <1>2, ResultsInConcat
<1>4. (ResultsIn(inbox) \o ResultsIn(batch)) \o rest = ResultsIn(inbox) \o (ResultsIn(batch) \o rest)
  <2>1. \A a, b, c \in Seq(Results) : (a \o b) \o c = a \o (b \o c)
    BY ConcatAssociative
  <2> QED
    BY <1>2, <1>3, <2>1
<1> QED
  BY <1>2, <1>3, <1>4 DEF batch, UnderWay

(* processMessages takes the first result under way, or none. *)
LEMMA UnderWayAfterProcess ==
    ASSUME NEW box \in Box, NEW q \in Seq(Results), NEW later, ProcessMessages(box, later)
    PROVE  \/ ResultsIn(inbox') \o q = ResultsIn(box) \o q
           \/ /\ ResultsIn(box) \o q # <<>>
              /\ ResultsIn(inbox') \o q = Tail(ResultsIn(box) \o q)
<1>1. CASE box = <<>>
  BY <1>1 DEF ProcessMessages
<1>2. CASE box # <<>>
  <2> DEFINE m == Head(box)
             t == Tail(box)
  <2>1. inbox' = t
    BY <1>2 DEF ProcessMessages
  <2>2. /\ m \in Results \cup {More} /\ t \in Seq(Results \cup {More})
        /\ box = <<m>> \o t
    BY <1>2 DEF Box
  <2>3. <<m>> \in Box /\ t \in Box
    BY <2>2 DEF Box
  <2> HIDE DEF m, t
  <2>4. ResultsIn(box) = ResultsIn(<<m>>) \o ResultsIn(t) /\ ResultsIn(t) \in Seq(Results)
    BY <2>2, <2>3, ResultsInConcat
  <2>5. CASE m = More
    <3>1. ResultsIn(<<m>>) = <<>>
      BY <2>5, ResultsInFew
    <3> QED
      BY <2>1, <2>4, <3>1, ConcatEmptySeq
  <2>6. CASE m # More
    <3> DEFINE r == ResultsIn(t)
    <3>1. m \in Results /\ <<m>> \in Seq(Results)
      BY <2>2, <2>6
    <3>2. ResultsIn(<<m>>) = <<m>>
      BY <3>1, ResultsInFew
    <3>3. r \in Seq(Results)
      BY <2>4
    <3> HIDE DEF r
    <3>4. (<<m>> \o r) \o q # <<>> /\ Tail((<<m>> \o r) \o q) = r \o q
      <4>1. (<<m>> \o r) \o q = <<m>> \o (r \o q)
        BY <3>1, <3>3, ConcatAssociative
      <4>2. r \o q \in Seq(Results)
        BY <3>3
      <4> DEFINE rq == r \o q
      <4> HIDE DEF rq
      <4>3. <<m>> \o rq # <<>> /\ Tail(<<m>> \o rq) = rq
        BY <3>1, <4>2 DEF rq
      <4> QED
        BY <4>1, <4>3 DEF rq
    <3> QED
      BY <2>1, <2>4, <3>2, <3>4 DEF r
  <2> QED
    BY <2>5, <2>6
<1> QED
  BY <1>1, <1>2

(* Only results are under way. *)
LEMMA UnderWayType == BridgeInv => UnderWay \in Seq(Results)
<1> SUFFICES ASSUME BridgeInv PROVE UnderWay \in Seq(Results)
  OBVIOUS
<1>1. inbox \in Box /\ queue \in Seq(Results)
  BY DEF BridgeInv, BridgeTypeOK, Box
<1>2. ResultsIn(inbox) \in Seq(Results)
  BY <1>1, ResultsInConcat
<1> QED
  BY <1>1, <1>2 DEF UnderWay

(* So does pollOnce. *)
LEMMA PollTakesOne ==
    ASSUME BridgeInv, NEW event, NEW later, PollOnce(event, later)
    PROVE  UnderWay' = UnderWay \/ (UnderWay # <<>> /\ UnderWay' = Tail(UnderWay))
<1> DEFINE rest == SubSeq(queue, BatchLen + 1, Len(queue))
           box == inbox \o Encode(BatchLen)
<1>1. queue' = rest /\ IF queue = <<>> THEN inbox' = inbox ELSE ProcessMessages(box, later)
  BY DEF PollOnce
<1>2. CASE queue = <<>>
  BY <1>1, <1>2, EmptyQueueStays DEF UnderWay
<1>3. CASE queue # <<>>
  <2>1. box \in Box /\ rest \in Seq(Results)
    BY <1>3, FetchKnown
  <2>2. ResultsIn(box) \o rest = UnderWay
    BY <1>3, UnderWayAfterFetch
  <2> HIDE DEF box, rest
  <2>3. UnderWay' = ResultsIn(inbox') \o rest
    BY <1>1 DEF UnderWay
  <2> QED
    BY <1>1, <1>3, <2>1, <2>2, <2>3, UnderWayAfterProcess
<1> QED
  BY <1>2, <1>3

(* sendPluginResult adds one result at the end, or none. *)
LEMMA SendResultPuts ==
    ASSUME BridgeInv, NEW call \in Ids, context' \in Ids, SendResult(call), inbox' = inbox
    PROVE  UnderWay' = UnderWay \/ \E m \in Results : UnderWay' = Append(UnderWay, m)
<1> DEFINE m == [to |-> context', of |-> call]
           here == ResultsIn(inbox)
<1>1. m \in Results
  BY DEF Results
<1> HIDE DEF m
<1>2. queue' = queue \/ queue' = Append(queue, m)
  BY DEF SendResult, Enqueue, m
<1>3. inbox \in Box /\ queue \in Seq(Results)
  BY DEF BridgeInv, BridgeTypeOK, Box
<1>4. here \in Seq(Results)
  BY <1>3, ResultsInConcat
<1>5. UnderWay = here \o queue /\ UnderWay' = here \o queue'
  BY DEF UnderWay
<1> HIDE DEF here
<1>6. here \o Append(queue, m) = Append(here \o queue, m)
  BY <1>1, <1>3, <1>4, AppendOfConcat
<1> QED
  BY <1>1, <1>2, <1>5, <1>6

(***************************************************************************)
(* BridgeImplementsFifo: the two queues, the batches between them and the  *)
(* polls implement one queue, MessageFifo: every step is a message put,    *)
(* the first one taken, a new page, or nothing.                            *)
(***************************************************************************)
THEOREM BridgeImplementsFifo == BridgeSpec => InOrder
<1>1. BridgeInit => Fifo!FifoInit
  BY ResultsInFew, ConcatEmptySeq DEF BridgeInit, Fifo!FifoInit, UnderWay
<1>2. BridgeInv /\ [BridgeNext]_bridgeVars => [Fifo!FifoNext]_(Fifo!fifoVars)
  <2> SUFFICES ASSUME BridgeInv, [BridgeNext]_bridgeVars
               PROVE  [Fifo!FifoNext]_(Fifo!fifoVars)
    OBVIOUS
  <2> DEFINE Same == UNCHANGED <<UnderWay, load>>
             Take == UnderWay # <<>> /\ UnderWay' = Tail(UnderWay) /\ load' = load
             Add == \E m \in Results : UnderWay' = Append(UnderWay, m) /\ load' = load
             New == UnderWay' = <<>> /\ load' = load + 1
  <2>0. (Same \/ Take \/ Add \/ New) => [Fifo!FifoNext]_(Fifo!fifoVars)
    BY DEF Fifo!FifoNext, Fifo!fifoVars, Fifo!TakeOne, Fifo!NewPage, Fifo!Put
  <2>1. CASE InitBridge
    <3>1. Same
      BY <2>1 DEF InitBridge, UnderWay
    <3> QED
      BY <2>0, <3>1
  <2>2. CASE Reload
    <3>1. load' = load + 1 /\ inbox' = <<>> /\ queue' = <<>>
      BY <2>2 DEF Reload
    <3>2. New
      BY <3>1, ResultsInFew, ConcatEmptySeq DEF UnderWay
    <3> QED
      BY <2>0, <3>2
  <2>3. ASSUME NEW kind \in Kinds, NEW lost \in {0, 1}, Exec(kind, lost)
        PROVE  [Fifo!FifoNext]_(Fifo!fifoVars)
    <3> DEFINE id == nextId + lost
    <3>1. /\ Execute(id, kind) /\ inbox' = inbox /\ load' = load
          /\ id <= MaxCalls
      BY <2>3 DEF Exec
    <3>2. id \in Ids /\ context' = id
      BY <3>1, BridgeAssumption DEF BridgeInv, BridgeTypeOK, Ids, Execute
    <3> HIDE DEF id
    <3>3. CASE queue' = queue
      BY <2>0, <3>1, <3>3 DEF UnderWay
    <3>4. CASE SendResult(id)
      <4>1. UnderWay' = UnderWay \/ \E m \in Results : UnderWay' = Append(UnderWay, m)
        BY <3>1, <3>2, <3>4, SendResultPuts
      <4> QED
        BY <2>0, <3>1, <4>1
    <3> QED
      BY <3>1, <3>3, <3>4 DEF Execute
  <2>4. CASE ExecPop
    <3>1. load' = load /\ UnderWay' = UnderWay
      <4>1. CASE queue = <<>>
        BY <2>4, <4>1 DEF ExecPop, UnderWay
      <4>2. CASE queue # <<>>
        <5>1. /\ inbox' = inbox \o Encode(BatchLen) /\ load' = load
              /\ queue' = SubSeq(queue, BatchLen + 1, Len(queue))
          BY <2>4, <4>2 DEF ExecPop, PushBatch
        <5>2. ResultsIn(inbox') \o queue' = UnderWay
          BY <4>2, <5>1, UnderWayAfterFetch
        <5> QED
          BY <5>1, <5>2 DEF UnderWay
      <4> QED
        BY <4>1, <4>2
    <3> QED
      BY <2>0, <3>1
  <2>5. CASE ExecReturn
    BY <2>0, <2>5 DEF ExecReturn, UnderWay
  <2>6. ASSUME NEW call \in Ids, Answer(call)
        PROVE  [Fifo!FifoNext]_(Fifo!fifoVars)
    <3>1. /\ SendResult(call) /\ inbox' = inbox /\ load' = load /\ context' = context
          /\ call \in work
      BY <2>6 DEF Answer, jsVars
    <3>2. context' \in Ids
      BY <3>1, BridgeAssumption DEF BridgeInv, BridgeTypeOK, HandedOut
    <3>3. UnderWay' = UnderWay \/ \E m \in Results : UnderWay' = Append(UnderWay, m)
      BY <3>1, <3>2, SendResultPuts
    <3> QED
      BY <2>0, <3>1, <3>3
  <2>7. CASE Tick
    <3>0. load' = load
      BY <2>7 DEF Tick
    <3>1. CASE ProcessMessages(inbox, Tail(ticks)) /\ UNCHANGED queue
      <4>1. inbox \in Box /\ queue \in Seq(Results)
        BY DEF BridgeInv, BridgeTypeOK, Box
      <4>2. \/ ResultsIn(inbox') \o queue = UnderWay
            \/ UnderWay # <<>> /\ ResultsIn(inbox') \o queue = Tail(UnderWay)
        BY <3>1, <4>1, UnderWayAfterProcess DEF UnderWay
      <4>3. UnderWay' = ResultsIn(inbox') \o queue
        BY <3>1 DEF UnderWay
      <4> QED
        BY <2>0, <3>0, <4>2, <4>3
    <3>2. CASE PollOnce(FALSE, Tail(ticks))
      BY <2>0, <3>0, <3>2, PollTakesOne
    <3> QED
      BY <2>7, <3>1, <3>2 DEF Tick
  <2>8. CASE OnlineEvent
    <3>1. load' = load /\ PollOnce(TRUE, ticks)
      BY <2>8 DEF OnlineEvent
    <3> QED
      BY <2>0, <3>1, PollTakesOne
  <2>9. CASE RunAvail
    BY <2>0, <2>9 DEF RunAvail, jsVars, UnderWay
  <2>10. CASE UNCHANGED bridgeVars
    BY <2>0, <2>10 DEF bridgeVars, jsVars, nativeVars, UnderWay
  <2> QED
    BY <2>1, <2>2, <2>3, <2>4, <2>5, <2>6, <2>7, <2>8, <2>9, <2>10 DEF BridgeNext
<1> QED
  BY <1>1, <1>2, BridgeInvHolds, PTL DEF BridgeSpec, InOrder, Fifo!FifoSpec

-----------------------------------------------------------------------------
(***************************************************************************)
(* The start of the page: the back button.  Its channel is not sticky, so  *)
(* what waits on it is there until it is taken off; the application knows  *)
(* of it within every task.                                                *)
(***************************************************************************)
BackChannel == chan["backbutton"]

BackInv ==
    /\ "backbutton" \in DOMAIN chan
    /\ \E S : BackChannel \in [state : {0}, handlers : Seq(S)]
    /\ override \in BOOLEAN
    /\ override <=> BackChannel.handlers # <<>>

LEMMA BackInvInit == BootInit => BackInv
<1> SUFFICES ASSUME BootInit PROVE BackInv
  OBVIOUS
<1>1. "backbutton" \in Channels /\ "backbutton" \notin StickyChannels
  BY DEF Channels, StickyChannels
<1>2. DOMAIN chan = Channels /\ BackChannel = [state |-> 0, handlers |-> <<>>] /\ override = FALSE
  BY <1>1 DEF BootInit, BackChannel, NewChannel
<1>3. BackChannel \in [state : {0}, handlers : Seq({})]
  BY <1>2
<1> QED
  BY <1>1, <1>2, <1>3 DEF BackInv

(* What a step does to a channel's handlers: hs is what it leaves. *)
LEMMA HandlersOfBack ==
    ASSUME BackInv, NEW c, NEW hs, chan' = [chan EXCEPT ![c].handlers = hs],
           c # "backbutton" \/ \E S : hs \in Seq(S),
           IF c = "backbutton" THEN override' = (hs # <<>>) ELSE override' = override
    PROVE  BackInv'
<1>1. DOMAIN chan' = DOMAIN chan
  OBVIOUS
<1>2. CASE c # "backbutton"
  <2>1. BackChannel' = BackChannel
    BY <1>2 DEF BackInv, BackChannel
  <2> QED
    BY <1>1, <1>2, <2>1 DEF BackInv
<1>3. CASE c = "backbutton"
  <2>1. PICK S : hs \in Seq(S)
    BY <1>3
  <2>2. BackChannel' = [state |-> 0, handlers |-> hs]
    BY <1>3 DEF BackInv, BackChannel
  <2>3. BackChannel' \in [state : {0}, handlers : Seq(S)]
    BY <2>1, <2>2
  <2>4. override' \in BOOLEAN /\ (override' <=> hs # <<>>)
    BY <1>3
  <2> QED
    BY <1>1, <2>2, <2>3, <2>4 DEF BackInv
<1> QED
  BY <1>2, <1>3

LEMMA BackInvStays ==
    ASSUME BackInv, UNCHANGED <<chan, override>> PROVE BackInv'
BY DEF BackInv, BackChannel

LEMMA RemoveOne ==
    ASSUME NEW S, NEW s \in Seq(S), NEW i \in 1 .. Len(s)
    PROVE  /\ RemoveAt(s, i) \in Seq(S)
           /\ RemoveAt(s, i) = <<>> <=> Len(s) = 1
<1> DEFINE a == SubSeq(s, 1, i - 1)
           b == SubSeq(s, i + 1, Len(s))
<1>1. Len(s) \in Nat /\ Len(s) \in Int /\ i \in Int
  BY LenProperties
<1>2. a \in Seq(S) /\ Len(a) = i - 1
  BY <1>1, SubSeqProperties
<1>3. b \in Seq(S) /\ Len(b) = Len(s) - i
  BY <1>1, SubSeqProperties
<1>4. RemoveAt(s, i) = a \o b
  BY DEF RemoveAt
<1> HIDE DEF a, b
<1>5. a \o b \in Seq(S) /\ Len(a \o b) = Len(a) + Len(b)
  BY <1>2, <1>3, ConcatProperties
<1>6. a \o b = <<>> <=> Len(a \o b) = 0
  BY <1>5, EmptySeq
<1>7. Len(a \o b) = 0 <=> Len(s) = 1
  <2>1. \A n, j \in Int : (j - 1) + (n - j) = n - 1 /\ (n - 1 = 0 <=> n = 1)
    OBVIOUS
  <2>2. Len(a \o b) = (i - 1) + (Len(s) - i)
    BY <1>2, <1>3, <1>5
  <2> QED
    BY <1>1, <2>1, <2>2
<1> QED
  BY <1>4, <1>5, <1>6, <1>7

LEMMA BackSubscribe == ASSUME BackInv, Subscribe PROVE BackInv'
<1> DEFINE c == Head(agenda).on
           h == Head(agenda).h
           hs == chan[c].handlers
<1>1. CASE UNCHANGED <<chan, override>>
  BY <1>1, BackInvStays
<1>2. CASE /\ chan' = [chan EXCEPT ![c].handlers = Append(hs, h)]
           /\ IF hs = <<>> THEN HasSubscribersChange(c, 1) ELSE UNCHANGED override
  <2>1. CASE c # "backbutton"
    <3>1. override' = override
      BY <1>2, <2>1 DEF HasSubscribersChange
    <3> QED
      BY <1>2, <2>1, <3>1, HandlersOfBack
  <2>2. CASE c = "backbutton"
    <3>1. PICK S : hs \in Seq(S)
      BY <2>2 DEF BackInv, BackChannel
    <3>2. hs \in Seq(S \cup {h})
      BY <3>1
    <3>3. Append(hs, h) \in Seq(S \cup {h}) /\ Append(hs, h) # <<>>
      BY <3>2, AppendProperties
    <3>4. override' = TRUE
      <4>1. CASE hs = <<>>
        BY <1>2, <2>2, <4>1 DEF HasSubscribersChange
      <4>2. CASE hs # <<>>
        BY <1>2, <2>2, <4>2 DEF BackInv, BackChannel
      <4> QED
        BY <4>1, <4>2
    <3> HIDE DEF c, h, hs
    <3> QED
      BY <1>2, <2>2, <3>3, <3>4, HandlersOfBack
  <2> QED
    BY <2>1, <2>2
<1> QED
  BY <1>1, <1>2 DEF Subscribe

LEMMA BackUnsubscribe == ASSUME BackInv, Unsubscribe PROVE BackInv'
<1> DEFINE c == Head(agenda).on
           hs == chan[c].handlers
<1>1. CASE UNCHANGED <<chan, override>>
  BY <1>1, BackInvStays
<1>2. ASSUME NEW i \in DOMAIN hs,
             chan' = [chan EXCEPT ![c].handlers = RemoveAt(hs, i)],
             IF Len(hs) = 1 THEN HasSubscribersChange(c, 0) ELSE UNCHANGED override
      PROVE  BackInv'
  <2>1. CASE c # "backbutton"
    <3>1. override' = override
      BY <1>2, <2>1 DEF HasSubscribersChange
    <3> QED
      BY <1>2, <2>1, <3>1, HandlersOfBack
  <2>2. CASE c = "backbutton"
    <3>1. PICK S : hs \in Seq(S)
      BY <2>2 DEF BackInv, BackChannel
    <3>2. Len(hs) \in Nat /\ i \in 1 .. Len(hs) /\ hs # <<>>
      BY <3>1, LenProperties, EmptySeq
    <3>4. RemoveAt(hs, i) \in Seq(S)
      BY <3>1, <3>2, RemoveOne
    <3>5. RemoveAt(hs, i) = <<>> <=> Len(hs) = 1
      BY <3>1, <3>2, RemoveOne
    <3>6. override' = (RemoveAt(hs, i) # <<>>)
      <4>1. CASE Len(hs) = 1
        BY <1>2, <2>2, <3>5, <4>1 DEF HasSubscribersChange
      <4>2. CASE Len(hs) # 1
        <5>1. override' = TRUE
          BY <1>2, <2>2, <3>2, <4>2 DEF BackInv, BackChannel
        <5> QED
          BY <3>5, <4>2, <5>1
      <4> QED
        BY <4>1, <4>2
    <3> HIDE DEF c, hs
    <3> QED
      BY <1>2, <2>2, <3>4, <3>6, HandlersOfBack
  <2> QED
    BY <2>1, <2>2
<1> QED
  BY <1>1, <1>2 DEF Unsubscribe

LEMMA BackFire == ASSUME BackInv, Fire PROVE BackInv'
<1> DEFINE c == Head(agenda).on
<1>1. chan' = [chan EXCEPT ![c] = Fired(c)] /\ override' = override
  BY DEF Fire
<1>2. c = "backbutton" => Fired(c) = BackChannel
  BY DEF BackInv, BackChannel, Fired
<1>3. DOMAIN chan' = DOMAIN chan /\ BackChannel' = BackChannel
  BY <1>1, <1>2 DEF BackInv, BackChannel
<1> QED
  BY <1>1, <1>3 DEF BackInv

LEMMA BackSettle == ASSUME BackInv, Settle PROVE BackInv'
<1> DEFINE c == Head(agenda).on
<1>1. CASE chan[c].state = 2
  <2>1. c # "backbutton"
    BY <1>1 DEF BackInv, BackChannel
  <2>2. chan' = [chan EXCEPT ![c].handlers = <<>>] /\ override' = override
    BY <1>1 DEF Settle
  <2> QED
    BY <2>1, <2>2, HandlersOfBack
<1>2. CASE chan[c].state # 2
  BY <1>2, BackInvStays DEF Settle
<1> QED
  BY <1>1, <1>2

LEMMA BackInvNext == BackInv /\ [BootNext]_bootVars => BackInv'
<1> SUFFICES ASSUME BackInv, [BootNext]_bootVars PROVE BackInv'
  OBVIOUS
<1>1. CASE RunTask
  <2>1. ASSUME Require \/ Build \/ Hook \/ Bootstrap \/ Defer \/ JoinInit \/ InitStep
               \/ JoinReady \/ ReadyStep \/ Assign \/ CallHandler \/ ScriptsDone
        PROVE  BackInv'
    BY <2>1, BackInvStays
    DEF Require, Build, Hook, Bootstrap, Defer, JoinInit, InitStep, JoinReady, ReadyStep,
        Assign, CallHandler, ScriptsDone
  <2> QED
    BY <1>1, <2>1, BackSubscribe, BackUnsubscribe, BackFire, BackSettle DEF RunTask
<1>2. CASE Loading
  BY <1>2, BackInvStays
  DEF Loading, LoadPlugins, PluginListLoaded, FireDeviceReady, DOMContentLoaded,
      PluginScriptLoaded
<1>3. CASE PageActs
  BY <1>3, BackInvStays DEF PageActs, ListenEarly, Listen, AddConstructor, BackListen
<1>4. CASE UNCHANGED bootVars
  BY <1>4, BackInvStays DEF bootVars
<1> QED
  BY <1>1, <1>2, <1>3, <1>4 DEF BootNext

(***************************************************************************)
(* Whatever listeners of the back button come and go (Channel.subscribe,   *)
(* unsubscribe, fire), the application leaves the button to the page       *)
(* exactly when the page has a listener for it.                            *)
(***************************************************************************)
THEOREM BackButtonIsPages == BootSpec => []BackButtonOverride
<1>1. BackInv => BackButtonOverride
  BY DEF BackInv, BackChannel, BackButtonOverride
<1> QED
  BY BackInvInit, BackInvNext, <1>1, PTL DEF BootSpec

-----------------------------------------------------------------------------
(***************************************************************************)
(* The start of the page: ReadyMeansReady.  It rests on what is still to   *)
(* be called: a channel fires late enough because the calls of an agenda   *)
(* come in an order.  KindOf sorts the calls, After says which kinds may   *)
(* follow which, and every step leaves an agenda in that order.  Then the  *)
(* parts of ReadyInv relate the kinds of calls that are left to the        *)
(* channels, the counts of the two joins, the timers and the scripts: a    *)
(* join's count is never less than the calls it still awaits, so it ends   *)
(* only after the last channel it waits for has fired.                     *)
(***************************************************************************)
(* What a call of the agenda is to the order of the start. *)
KindOf(call) ==
    CASE call.do = "require" -> IF call.on = "init" THEN "init" ELSE "require"
      [] call.do = "subscribe" ->
            IF call.on \in {"backbutton", "deviceready"} THEN "listen"
            ELSE IF call.on = "onNativeReady" THEN "waitNative"
            ELSE IF call.on = "onPluginsReady" THEN "waitPlugins"
            ELSE IF call.on = "onDOMContentLoaded" THEN "waitDom"
            ELSE IF call.h = "show" THEN "waitShow"
            ELSE IF call.h = "construct" THEN "waitConstruct"
            ELSE "waitCordova"
      [] call.do = "defer" -> IF call.on = "loadPlugins" THEN "loadPlugins" ELSE "fireLater"
      [] call.do \in {"fire", "call"} -> call.on
      [] OTHER -> call.do

Native == "onNativeReady"
PluginsReady == "onPluginsReady"
Cordova == "onCordovaReady"
Dom == "onDOMContentLoaded"

(* The calls that may follow one of a kind in an agenda, near or far. *)
After(kind) ==
    CASE kind \in {"require", "build"} ->
            {"require", "init", "build", "hook", "bootstrap", "loadPlugins", "joinInit",
             "assign", Cordova, "joinReady", "settle"}
      [] kind = "assign" -> {"require", "assign", "build", Cordova, "joinReady", "settle"}
      [] kind \in {"hook", Dom} -> {"require", "bootstrap", "loadPlugins", "joinInit", "build"}
      [] kind = "bootstrap" -> {"loadPlugins", "joinInit", "build"}
      [] kind = Native -> {"waitShow", "loadPlugins", "joinInit", "build"}
      [] kind = "waitShow" -> {"loadPlugins", "joinInit", "build"}
      [] kind = "loadPlugins" -> {"joinInit", "build"}
      [] kind = "joinInit" -> {"build"}
      [] kind = "waitNative" -> {"waitPlugins", "build"}
      [] kind = "waitPlugins" -> {"build"}
      [] kind = "initStep" -> {"waitPlugins", "build", "settle"}
      [] kind = Cordova -> {"joinReady", "build", "settle"}
      [] kind \in {"show", "construct"} -> {"show", "construct", "joinReady", "build", "settle"}
      [] kind = "joinReady" -> {"build", "settle"}
      [] kind = "waitCordova" -> {"waitDom", "build", "settle"}
      [] kind = "waitDom" -> {"build", "settle"}
      [] kind \in {"readyStep", "fireLater"} -> {"waitDom", "build", "settle", "require"}
      [] kind = "settle" -> {"joinReady", "build", "settle", "require"}
      [] kind = "onReady" -> {"deviceready", "onReady", "settle"}
      [] OTHER -> {}

Ordered(calls) ==
    \A i, j \in DOMAIN calls : i < j => KindOf(calls[j]) \in After(KindOf(calls[i]))

KindsOf(calls) == {KindOf(calls[i]) : i \in DOMAIN calls}
KindsNow == KindsOf(agenda)

Has(kinds) == \E k \in kinds : k \in KindsNow
IsFired(c) == chan[c].state = 2
Waits(c) == chan[c].handlers
Timed(f) == f \in ToSet(timers)

(* What cordova/init does before it joins. *)
Early == {"init", "hook", "bootstrap", "waitShow", "loadPlugins", "joinInit"}

Count(b) == IF b THEN 1 ELSE 0

(* The calls of an agenda *)
JoinSubs == {Sub(Native, "initStep"), Sub(PluginsReady, "initStep"),
           Sub(Cordova, "readyStep"), Sub(Dom, "readyStep")}

OtherSubs == {Sub(Cordova, "show"), Sub(Cordova, "construct"), Sub("deviceready", "onReady")}

Calls ==
    {Do("fire", c) : c \in StickyChannels}
    \cup {Do("settle", c) : c \in StickyChannels}
    \cup {Do("call", h) : h \in {"initStep", "readyStep", "show", "construct", "onReady"}}
    \cup {Do("defer", f) : f \in {"loadPlugins", "deviceready"}}
    \cup {Do("require", id) : id \in Modules}
    \cup {Do("assign", id) : id \in Modules}
    \cup {Do("build", id) : id \in Modules}
    \cup {Do(w, "") : w \in {"hook", "bootstrap", "joinInit", "joinReady", "scriptsDone"}}
    \cup {Sub("backbutton", h) : h \in BackListeners}
    \cup {Unsub("backbutton", h) : h \in BackListeners}
    \cup JoinSubs \cup OtherSubs

BootTyped ==
    /\ chan \in [Channels -> [state : 0 .. 2, handlers : Seq(Handlers)]]
    /\ chan["backbutton"].state = 0
    /\ \A c \in StickyChannels : chan[c].state # 0
    /\ agenda \in Seq(Calls)
    /\ timers \in Seq({"loadPlugins", "deviceready"})
    /\ symbols \in Seq(Modules \ {"init"})
    /\ readyState \in {"loading", "interactive"}
    /\ constructor \in {"none", "given", "run"}
    /\ heard \in Nat

(* Who waits where. *)
Waiting ==
    /\ Waits(Native) = <<>>
    /\ Waits(PluginsReady) \in {<<>>, <<"initStep">>}
    /\ ToSet(Waits(Cordova)) \subseteq {"show", "construct"}
    /\ Waits(Dom) \in {<<>>, <<"readyStep">>}
    /\ Waits("deviceready") \in {<<>>, <<"onReady">>}

(* The calls that the first join still awaits. *)
InitPending ==
    Count("waitNative" \in KindsNow) + Count("waitPlugins" \in KindsNow) + Count("initStep" \in KindsNow)
    + Count(Waits(PluginsReady) # <<>> /\ ~IsFired(PluginsReady))

ReadyPending ==
    Count("waitCordova" \in KindsNow) + Count("waitDom" \in KindsNow) + Count("readyStep" \in KindsNow)
    + Count(Waits(Dom) # <<>> /\ ~IsFired(Dom))

InitJoin ==
    /\ left \in [{"init", "ready"} -> 0 .. 2]
    /\ InitPending <= left.init
    /\ Has({"waitNative"}) => left.init = 2
    /\ Has({"joinInit"}) => IsFired(Native) \/ Has({Native, "bootstrap"})
    /\ Has(Early) => Waits(PluginsReady) = <<>>
    /\ Has({"initStep", "waitNative", "waitPlugins"}) \/ Waits(PluginsReady) # <<>> => IsFired(Native)
    /\ Has({"initStep"}) /\ left.init = 1 => IsFired(PluginsReady)
    /\ Has({Cordova}) \/ IsFired(Cordova) =>
          IsFired(Native) /\ IsFired(PluginsReady) /\ left.init = 0

ReadyJoin ==
    /\ ReadyPending <= left.ready
    /\ Has({"waitCordova"}) => left.ready = 2
    /\ Has({"joinReady"}) => (IsFired(Cordova) \/ Has({Cordova})) /\ Waits(Dom) = <<>>
    /\ Has({"readyStep", "waitCordova", "waitDom"}) \/ Waits(Dom) # <<>> => IsFired(Cordova)
    /\ Has({"readyStep"}) /\ left.ready = 1 => IsFired(Dom)

(* Plugins come one load after another, and end with onPluginsReady. *)
PluginsCome ==
    /\ scripts # {} \/ IsFired(PluginsReady) \/ Has({PluginsReady, "scriptsDone"}) =>
          ~Has(Early) /\ ~Timed("loadPlugins")
    /\ scripts # {} => ~IsFired(PluginsReady) /\ ~Has({PluginsReady, "scriptsDone"})
    /\ Has({PluginsReady, "scriptsDone"}) => ~IsFired(PluginsReady)
    /\ Timed("loadPlugins") => timers = <<"loadPlugins">> /\ scripts = {} /\ ~Has(Early \ {"joinInit"})

ScriptsCounted ==
    /\ scripts \subseteq Plugins \cup {"plugin_list"}
    /\ "plugin_list" \in scripts => scripts = {"plugin_list"}
    /\ scriptCounter = Cardinality(scripts \ {"plugin_list"})

(* The document and the native side. *)
Outside ==
    /\ Has({Dom}) \/ IsFired(Dom) => readyState = "interactive"
    /\ Has({Dom}) => ~IsFired(Dom)
    /\ Has({"init", "hook"}) => ~IsFired(Dom) /\ ~Has({Dom})
    /\ Has({Native}) \/ IsFired(Native) => secret

(* A module is under its symbol before onCordovaReady. *)
Mapped ==
    /\ Has({Cordova}) =>
          \A id \in ToSet(symbols) : id \in window \/ Do("assign", id) \in ToSet(agenda)
    /\ IsFired(Cordova) => ToSet(symbols) \subseteq window

(* deviceready comes after all that. *)
Told ==
    heard > 0 \/ IsFired("deviceready") \/ Timed("deviceready")
    \/ Has({"fireLater", "deviceready", "onReady"}) => IsFired(Cordova) /\ IsFired(Dom)

(* A constructor that was given is called. *)
Constructs ==
    constructor = "given" =>
        IF IsFired(Cordova) THEN Has({"waitConstruct", "construct"})
        ELSE Has({"waitConstruct"}) \/ "construct" \in ToSet(Waits(Cordova))

InOrderNow == Ordered(agenda)

ReadyInv ==
    /\ BootTyped /\ InOrderNow /\ Waiting /\ InitJoin /\ ReadyJoin /\ PluginsCome /\ ScriptsCounted
    /\ Outside /\ Mapped /\ Told /\ Constructs

-----------------------------------------------------------------------------
(* Agendas: the kinds of their calls and the order of these. *)

LEMMA KindsOfNone == KindsOf(<<>>) = {} /\ Ordered(<<>>) /\ ToSet(<<>>) = {}
  BY DEF KindsOf, Ordered, ToSet

LEMMA KindsOfOne ==
  ASSUME NEW x
  PROVE  KindsOf(<<x>>) = {KindOf(x)} /\ Ordered(<<x>>) /\ ToSet(<<x>>) = {x}
<1>1. DOMAIN <<x>> = {1} /\ <<x>>[1] = x
  OBVIOUS
<1>2. KindsOf(<<x>>) = {KindOf(x)} /\ ToSet(<<x>>) = {x}
  BY <1>1, Zenon DEF KindsOf, ToSet
<1>3. \A i, j \in DOMAIN <<x>> : ~(i < j)
  BY <1>1
<1> QED
  BY <1>2, <1>3 DEF Ordered

LEMMA KindsOfConcat ==
  ASSUME NEW a \in Seq(Calls), NEW b \in Seq(Calls)
  PROVE  /\ a \o b \in Seq(Calls)
         /\ KindsOf(a \o b) = KindsOf(a) \cup KindsOf(b)
         /\ ToSet(a \o b) = ToSet(a) \cup ToSet(b)
<1> DEFINE ab == a \o b
<1>1. /\ ab \in Seq(Calls) /\ Len(ab) = Len(a) + Len(b)
      /\ \A i \in DOMAIN a : i \in DOMAIN ab /\ ab[i] = a[i]
      /\ \A i \in DOMAIN b : i + Len(a) \in DOMAIN ab /\ ab[i + Len(a)] = b[i]
      /\ \A i \in DOMAIN ab : (i \in DOMAIN a /\ ab[i] = a[i])
                              \/ (i - Len(a) \in DOMAIN b /\ ab[i] = b[i - Len(a)])
  OBVIOUS
<1> HIDE DEF ab
<1>2. KindsOf(ab) = KindsOf(a) \cup KindsOf(b)
  <2>1. ASSUME NEW i \in DOMAIN ab PROVE KindOf(ab[i]) \in KindsOf(a) \cup KindsOf(b)
    BY <1>1 DEF KindsOf
  <2>2. ASSUME NEW i \in DOMAIN a PROVE KindOf(a[i]) \in KindsOf(ab)
    BY <1>1, Zenon DEF KindsOf
  <2>3. ASSUME NEW i \in DOMAIN b PROVE KindOf(b[i]) \in KindsOf(ab)
    <3>1. i + Len(a) \in DOMAIN ab /\ ab[i + Len(a)] = b[i]
      BY <1>1
    <3> QED
      BY <3>1, Zenon DEF KindsOf
  <2> QED
    BY <2>1, <2>2, <2>3, Zenon DEF KindsOf
<1>3. ToSet(ab) = ToSet(a) \cup ToSet(b)
  <2>1. ASSUME NEW i \in DOMAIN ab PROVE ab[i] \in ToSet(a) \cup ToSet(b)
    BY <1>1 DEF ToSet
  <2>2. ASSUME NEW i \in DOMAIN a PROVE a[i] \in ToSet(ab)
    BY <1>1, Zenon DEF ToSet
  <2>3. ASSUME NEW i \in DOMAIN b PROVE b[i] \in ToSet(ab)
    <3>1. i + Len(a) \in DOMAIN ab /\ ab[i + Len(a)] = b[i]
      BY <1>1
    <3> QED
      BY <3>1, Zenon DEF ToSet
  <2> QED
    BY <2>1, <2>2, <2>3, Zenon DEF ToSet
<1> QED
  BY <1>1, <1>2, <1>3 DEF ab

LEMMA OrderedConcat ==
  ASSUME NEW a \in Seq(Calls), NEW b \in Seq(Calls), Ordered(a), Ordered(b),
         \A x \in KindsOf(a), y \in KindsOf(b) : y \in After(x)
  PROVE  Ordered(a \o b)
<1> DEFINE ab == a \o b
<1>1. /\ Len(ab) = Len(a) + Len(b) /\ ab \in Seq(Calls) /\ Len(a) \in Nat /\ Len(b) \in Nat
      /\ \A i \in DOMAIN ab : IF i <= Len(a) THEN i \in DOMAIN a /\ ab[i] = a[i]
                              ELSE i - Len(a) \in DOMAIN b /\ ab[i] = b[i - Len(a)]
  OBVIOUS
<1> HIDE DEF ab
<1>2. ASSUME NEW i \in DOMAIN ab, NEW j \in DOMAIN ab, i < j
      PROVE  KindOf(ab[j]) \in After(KindOf(ab[i]))
  <2>0. i \in Nat /\ j \in Nat
    BY <1>1
  <2>1. CASE j <= Len(a)
    BY <1>1, <1>2, <2>0, <2>1 DEF Ordered
  <2>2. CASE ~(i <= Len(a))
    <3>1. i - Len(a) < j - Len(a)
      BY <1>1, <1>2, <2>0
    <3>2. ~(j <= Len(a))
      BY <1>1, <1>2, <2>0, <2>2
    <3>3. /\ i - Len(a) \in DOMAIN b /\ ab[i] = b[i - Len(a)]
          /\ j - Len(a) \in DOMAIN b /\ ab[j] = b[j - Len(a)]
      BY <1>1, <2>2, <3>2
    <3> QED
      BY <3>1, <3>3, Zenon DEF Ordered
  <2>3. CASE i <= Len(a) /\ ~(j <= Len(a))
    <3>1. i \in DOMAIN a /\ ab[i] = a[i] /\ j - Len(a) \in DOMAIN b /\ ab[j] = b[j - Len(a)]
      BY <1>1, <2>3
    <3>2. KindOf(ab[i]) \in KindsOf(a) /\ KindOf(ab[j]) \in KindsOf(b)
      BY <3>1, Zenon DEF KindsOf
    <3> QED
      BY <3>2, Zenon
  <2> QED
    BY <2>1, <2>2, <2>3
<1> QED
  BY <1>2 DEF Ordered, ab

LEMMA OrderedAlike ==
  ASSUME NEW a, \A x, y \in KindsOf(a) : y \in After(x)
  PROVE  Ordered(a)
  BY Zenon DEF Ordered, KindsOf

(* What is left of the agenda follows the call that is made. *)
LEMMA RestFollows ==
  ASSUME agenda \in Seq(Calls), agenda # <<>>, Ordered(agenda)
  PROVE  /\ Head(agenda) \in Calls /\ Rest \in Seq(Calls) /\ Ordered(Rest)
         /\ KindsNow = {KindOf(Head(agenda))} \cup KindsOf(Rest)
         /\ ToSet(agenda) = {Head(agenda)} \cup ToSet(Rest)
         /\ KindsOf(Rest) \subseteq After(KindOf(Head(agenda)))
<1>1. /\ Head(agenda) \in Calls /\ Rest \in Seq(Calls) /\ Head(agenda) = agenda[1]
      /\ agenda = <<agenda[1]>> \o Rest
      /\ 1 \in DOMAIN agenda
      /\ \A i \in DOMAIN Rest : i + 1 \in DOMAIN agenda /\ Rest[i] = agenda[i + 1] /\ 1 < i + 1
  BY DEF Rest
<1>2. <<agenda[1]>> \in Seq(Calls)
  BY <1>1
<1>3. /\ KindsNow = {KindOf(agenda[1])} \cup KindsOf(Rest)
      /\ ToSet(agenda) = {agenda[1]} \cup ToSet(Rest)
  BY <1>1, <1>2, KindsOfConcat, KindsOfOne DEF KindsNow
<1>4. Ordered(Rest)
  <2>1. \A i, j \in DOMAIN Rest : i < j => i + 1 < j + 1
    BY <1>1
  <2> QED
    BY <1>1, <2>1 DEF Ordered
<1>5. KindsOf(Rest) \subseteq After(KindOf(agenda[1]))
  <2>1. ASSUME NEW i \in DOMAIN Rest PROVE KindOf(Rest[i]) \in After(KindOf(agenda[1]))
    BY <1>1 DEF Ordered
  <2> QED
    BY <2>1 DEF KindsOf
<1> QED
  BY <1>1, <1>3, <1>4, <1>5

(* The calls that come in front have to allow what is left. *)
LEMMA ThenFollows ==
  ASSUME agenda \in Seq(Calls), agenda # <<>>, Ordered(agenda),
         NEW calls \in Seq(Calls), Ordered(calls), Then(calls),
         \A x \in KindsOf(calls), y \in KindsOf(Rest) : y \in After(x)
  PROVE  /\ agenda' \in Seq(Calls) /\ InOrderNow'
         /\ KindsNow' = KindsOf(calls) \cup KindsOf(Rest)
         /\ ToSet(agenda') = ToSet(calls) \cup ToSet(Rest)
<1>1. Rest \in Seq(Calls) /\ Ordered(Rest)
  BY RestFollows
<1>2. agenda' = calls \o Rest
  BY DEF Then
<1> HIDE DEF Rest
<1>3. /\ calls \o Rest \in Seq(Calls)
      /\ KindsOf(calls \o Rest) = KindsOf(calls) \cup KindsOf(Rest)
      /\ ToSet(calls \o Rest) = ToSet(calls) \cup ToSet(Rest)
  BY <1>1, KindsOfConcat
<1>4. Ordered(calls \o Rest)
  BY <1>1, OrderedConcat
<1>5. KindsNow' = KindsOf(agenda') /\ (InOrderNow' <=> Ordered(agenda'))
  BY DEF KindsNow, InOrderNow
<1> QED
  BY <1>2, <1>3, <1>4, <1>5

LEMMA AfterIs ==
  /\ After("require") = {"require", "init", "build", "hook", "bootstrap", "loadPlugins",
       "joinInit", "assign", Cordova, "joinReady", "settle"}
  /\ After("build") = {"require", "init", "build", "hook", "bootstrap", "loadPlugins",
       "joinInit", "assign", Cordova, "joinReady", "settle"}
  /\ After("assign") = {"require", "assign", "build", Cordova, "joinReady", "settle"}
  /\ After("hook") = {"require", "bootstrap", "loadPlugins", "joinInit", "build"}
  /\ After(Dom) = {"require", "bootstrap", "loadPlugins", "joinInit", "build"}
  /\ After("bootstrap") = {"loadPlugins", "joinInit", "build"}
  /\ After(Native) = {"waitShow", "loadPlugins", "joinInit", "build"}
  /\ After("waitShow") = {"loadPlugins", "joinInit", "build"}
  /\ After("loadPlugins") = {"joinInit", "build"}
  /\ After("joinInit") = {"build"}
  /\ After("waitNative") = {"waitPlugins", "build"}
  /\ After("waitPlugins") = {"build"}
  /\ After("initStep") = {"waitPlugins", "build", "settle"}
  /\ After(Cordova) = {"joinReady", "build", "settle"}
  /\ After("show") = {"show", "construct", "joinReady", "build", "settle"}
  /\ After("construct") = {"show", "construct", "joinReady", "build", "settle"}
  /\ After("joinReady") = {"build", "settle"}
  /\ After("waitCordova") = {"waitDom", "build", "settle"}
  /\ After("waitDom") = {"build", "settle"}
  /\ After("readyStep") = {"waitDom", "build", "settle", "require"}
  /\ After("fireLater") = {"waitDom", "build", "settle", "require"}
  /\ After("settle") = {"joinReady", "build", "settle", "require"}
  /\ After("onReady") = {"deviceready", "onReady", "settle"}
  /\ \A k \in {"unsubscribe", "listen", "waitConstruct", PluginsReady, "deviceready", "init", "scriptsDone"} :
            After(k) = {}
<1>1. After("require") = {"require", "init", "build", "hook", "bootstrap", "loadPlugins",
        "joinInit", "assign", Cordova, "joinReady", "settle"}
  BY DEF After, Native, PluginsReady, Cordova, Dom
<1>2. After("build") = {"require", "init", "build", "hook", "bootstrap", "loadPlugins",
        "joinInit", "assign", Cordova, "joinReady", "settle"}
  BY DEF After, Native, PluginsReady, Cordova, Dom
<1>3. After("assign") = {"require", "assign", "build", Cordova, "joinReady", "settle"}
  BY DEF After, Native, PluginsReady, Cordova, Dom
<1>4. After("hook") = {"require", "bootstrap", "loadPlugins", "joinInit", "build"}
  BY DEF After, Native, PluginsReady, Cordova, Dom
<1>5. After(Dom) = {"require", "bootstrap", "loadPlugins", "joinInit", "build"}
  BY DEF After, Native, PluginsReady, Cordova, Dom
<1>6. After("bootstrap") = {"loadPlugins", "joinInit", "build"}
  BY DEF After, Native, PluginsReady, Cordova, Dom
<1>7. After(Native) = {"waitShow", "loadPlugins", "joinInit", "build"}
  BY DEF After, Native, PluginsReady, Cordova, Dom
<1>8. After("waitShow") = {"loadPlugins", "joinInit", "build"}
  BY DEF After, Native, PluginsReady, Cordova, Dom
<1>9. After("loadPlugins") = {"joinInit", "build"}
  BY DEF After, Native, PluginsReady, Cordova, Dom
<1>10. After("joinInit") = {"build"}
  BY DEF After, Native, PluginsReady, Cordova, Dom
<1>11. After("waitNative") = {"waitPlugins", "build"}
  BY DEF After, Native, PluginsReady, Cordova, Dom
<1>12. After("waitPlugins") = {"build"}
  BY DEF After, Native, PluginsReady, Cordova, Dom
<1>13. After("initStep") = {"waitPlugins", "build", "settle"}
  BY DEF After, Native, PluginsReady, Cordova, Dom
<1>14. After(Cordova) = {"joinReady", "build", "settle"}
  BY DEF After, Native, PluginsReady, Cordova, Dom
<1>15. After("show") = {"show", "construct", "joinReady", "build", "settle"}
  BY DEF After, Native, PluginsReady, Cordova, Dom
<1>16. After("construct") = {"show", "construct", "joinReady", "build", "settle"}
  BY DEF After, Native, PluginsReady, Cordova, Dom
<1>17. After("joinReady") = {"build", "settle"}
  BY DEF After, Native, PluginsReady, Cordova, Dom
<1>18. After("waitCordova") = {"waitDom", "build", "settle"}
  BY DEF After, Native, PluginsReady, Cordova, Dom
<1>19. After("waitDom") = {"build", "settle"}
  BY DEF After, Native, PluginsReady, Cordova, Dom
<1>20. After("readyStep") = {"waitDom", "build", "settle", "require"}
  BY DEF After, Native, PluginsReady, Cordova, Dom
<1>21. After("fireLater") = {"waitDom", "build", "settle", "require"}
  BY DEF After, Native, PluginsReady, Cordova, Dom
<1>22. After("settle") = {"joinReady", "build", "settle", "require"}
  BY DEF After, Native, PluginsReady, Cordova, Dom
<1>23. After("onReady") = {"deviceready", "onReady", "settle"}
  BY DEF After, Native, PluginsReady, Cordova, Dom
<1>24. \A k \in {"unsubscribe", "listen", "waitConstruct", PluginsReady, "deviceready", "init", "scriptsDone"} : After(k) = {}
  BY DEF After, Native, PluginsReady, Cordova, Dom
<1> QED
  BY <1>1, <1>2, <1>3, <1>4, <1>5, <1>6, <1>7, <1>8, <1>9, <1>10, <1>11, <1>12, <1>13, <1>14,
     <1>15, <1>16, <1>17, <1>18, <1>19, <1>20, <1>21, <1>22, <1>23, <1>24

LEMMA CallIs ==
  ASSUME NEW x \in Calls
  PROVE  /\ x.do = "fire" => x.on \in StickyChannels /\ KindOf(x) = x.on
         /\ x.do = "settle" => x.on \in StickyChannels /\ KindOf(x) = "settle"
         /\ x.do = "call" => /\ x.on \in {"initStep", "readyStep", "show", "construct", "onReady"}
                             /\ KindOf(x) = x.on
         /\ x.do = "defer" => \/ x.on = "loadPlugins" /\ KindOf(x) = "loadPlugins"
                              \/ x.on = "deviceready" /\ KindOf(x) = "fireLater"
         /\ x.do = "require" => /\ x.on \in Modules
                                /\ KindOf(x) = IF x.on = "init" THEN "init" ELSE "require"
         /\ x.do = "assign" => x = Do("assign", x.on) /\ KindOf(x) = "assign"
         /\ x.do = "build" => KindOf(x) = "build"
         /\ x.do \in {"hook", "bootstrap", "joinInit", "joinReady", "scriptsDone"} => KindOf(x) = x.do
         /\ x.do = "unsubscribe" => x.on = "backbutton" /\ KindOf(x) = "unsubscribe"
<1>1. CASE x \in {Do("fire", c) : c \in StickyChannels}
  BY <1>1 DEF KindOf, Do, StickyChannels
<1>2. CASE x \in {Do("settle", c) : c \in StickyChannels}
  BY <1>2 DEF KindOf, Do, StickyChannels
<1>3. CASE x \in {Do("call", h) : h \in {"initStep", "readyStep", "show", "construct", "onReady"}}
  BY <1>3 DEF KindOf, Do
<1>4. CASE x \in {Do("defer", f) : f \in {"loadPlugins", "deviceready"}}
  BY <1>4 DEF KindOf, Do
<1>5. CASE x \in {Do("require", id) : id \in Modules}
  <2>1. PICK id \in Modules : x = [do |-> "require", on |-> id]
    BY <1>5 DEF Do
  <2> QED
    BY <2>1 DEF KindOf
<1>6. CASE x \in {Do("assign", id) : id \in Modules}
  <2>1. PICK id \in Modules : x = [do |-> "assign", on |-> id]
    BY <1>6 DEF Do
  <2> QED
    BY <2>1 DEF KindOf, Do
<1>7. CASE x \in {Do("build", id) : id \in Modules}
  BY <1>7 DEF KindOf, Do
<1>8. CASE x \in {Do(w, "") : w \in {"hook", "bootstrap", "joinInit", "joinReady", "scriptsDone"}}
  <2>1. PICK w \in {"hook", "bootstrap", "joinInit", "joinReady", "scriptsDone"} :
            x = [do |-> w, on |-> ""]
    BY <1>8 DEF Do
  <2>2. KindOf(x) = w
    BY <2>1 DEF KindOf
  <2> QED
    BY <2>1, <2>2
<1>9. CASE x \in {Sub("backbutton", h) : h \in BackListeners} \cup JoinSubs \cup OtherSubs
  BY <1>9 DEF JoinSubs, OtherSubs, Sub
<1>10. CASE x \in {Unsub("backbutton", h) : h \in BackListeners}
  BY <1>10 DEF KindOf, Unsub
<1> QED
  BY <1>1, <1>2, <1>3, <1>4, <1>5, <1>6, <1>7, <1>8, <1>9, <1>10, Zenon DEF Calls

LEMMA NamesInCalls ==
  /\ \A c \in StickyChannels : Do("fire", c) \in Calls /\ Do("settle", c) \in Calls
  /\ \A h \in {"initStep", "readyStep", "show", "construct", "onReady"} : Do("call", h) \in Calls
  /\ \A f \in {"loadPlugins", "deviceready"} : Do("defer", f) \in Calls
  /\ \A id \in Modules :
        Do("require", id) \in Calls /\ Do("assign", id) \in Calls /\ Do("build", id) \in Calls
  /\ \A w \in {"hook", "bootstrap", "joinInit", "joinReady", "scriptsDone"} : Do(w, "") \in Calls
  /\ \A h \in BackListeners : Sub("backbutton", h) \in Calls /\ Unsub("backbutton", h) \in Calls
  /\ JoinSubs \subseteq Calls /\ OtherSubs \subseteq Calls
  BY Zenon DEF Calls

LEMMA KindsOfCalls ==
  /\ \A c \in StickyChannels : KindOf(Do("fire", c)) = c /\ KindOf(Do("settle", c)) = "settle"
  /\ \A h \in {"initStep", "readyStep", "show", "construct", "onReady"} : KindOf(Do("call", h)) = h
  /\ KindOf(Do("defer", "loadPlugins")) = "loadPlugins"
  /\ KindOf(Do("defer", "deviceready")) = "fireLater"
  /\ KindOf(Do("require", "init")) = "init"
  /\ \A id \in Modules \ {"init"} : KindOf(Do("require", id)) = "require"
  /\ \A id \in Modules : KindOf(Do("assign", id)) = "assign" /\ KindOf(Do("build", id)) = "build"
  /\ \A w \in {"hook", "bootstrap", "joinInit", "joinReady", "scriptsDone"} : KindOf(Do(w, "")) = w
  /\ KindOf(Sub(Native, "initStep")) = "waitNative"
  /\ KindOf(Sub(PluginsReady, "initStep")) = "waitPlugins"
  /\ KindOf(Sub(Cordova, "readyStep")) = "waitCordova"
  /\ KindOf(Sub(Dom, "readyStep")) = "waitDom"
  /\ KindOf(Sub(Cordova, "show")) = "waitShow"
  /\ KindOf(Sub(Cordova, "construct")) = "waitConstruct"
  /\ KindOf(Sub("deviceready", "onReady")) = "listen"
  /\ \A h : KindOf(Sub("backbutton", h)) = "listen"
  /\ \A h : KindOf(Unsub("backbutton", h)) = "unsubscribe"
<1>1. /\ \A c \in StickyChannels : KindOf(Do("fire", c)) = c /\ KindOf(Do("settle", c)) = "settle"
      /\ \A h \in {"initStep", "readyStep", "show", "construct", "onReady"} : KindOf(Do("call", h)) = h
      /\ KindOf(Do("defer", "loadPlugins")) = "loadPlugins"
      /\ KindOf(Do("defer", "deviceready")) = "fireLater"
  BY DEF KindOf, Do, StickyChannels
<1>2. /\ KindOf(Do("require", "init")) = "init"
      /\ \A id \in Modules \ {"init"} : KindOf(Do("require", id)) = "require"
      /\ \A id \in Modules : KindOf(Do("assign", id)) = "assign" /\ KindOf(Do("build", id)) = "build"
      /\ \A w \in {"hook", "bootstrap", "joinInit", "joinReady", "scriptsDone"} : KindOf(Do(w, "")) = w
  BY DEF KindOf, Do
<1>3. /\ KindOf(Sub(Native, "initStep")) = "waitNative"
      /\ KindOf(Sub(PluginsReady, "initStep")) = "waitPlugins"
      /\ KindOf(Sub(Cordova, "readyStep")) = "waitCordova"
      /\ KindOf(Sub(Dom, "readyStep")) = "waitDom"
      /\ KindOf(Sub(Cordova, "show")) = "waitShow"
      /\ KindOf(Sub(Cordova, "construct")) = "waitConstruct"
      /\ KindOf(Sub("deviceready", "onReady")) = "listen"
  BY DEF KindOf, Sub, Native, PluginsReady, Cordova, Dom
<1>4. /\ \A h : KindOf(Sub("backbutton", h)) = "listen"
      /\ \A h : KindOf(Unsub("backbutton", h)) = "unsubscribe"
  BY DEF KindOf, Sub, Unsub
<1> QED
  BY <1>1, <1>2, <1>3, <1>4

(* A step that makes the calls given in place of the first one *)
LEMMA AgendaOfStep ==
  ASSUME ReadyInv, agenda # <<>>,
         NEW calls \in Seq(Calls), Ordered(calls), Then(calls),
         \A x \in KindsOf(calls), y \in KindsOf(Rest) : y \in After(x)
  PROVE  /\ agenda' \in Seq(Calls) /\ InOrderNow'
         /\ KindsNow' = KindsOf(calls) \cup KindsOf(Rest)
         /\ ToSet(agenda') = ToSet(calls) \cup ToSet(Rest)
  BY ThenFollows DEF ReadyInv, BootTyped, InOrderNow

LEMMA AgendaBefore ==
  ASSUME ReadyInv, agenda # <<>>
  PROVE  /\ Head(agenda) \in Calls
         /\ KindsNow = {KindOf(Head(agenda))} \cup KindsOf(Rest)
         /\ ToSet(agenda) = {Head(agenda)} \cup ToSet(Rest)
         /\ KindsOf(Rest) \subseteq After(KindOf(Head(agenda)))
  BY RestFollows DEF ReadyInv, BootTyped, InOrderNow

LEMMA AgendaDone ==
  ASSUME ReadyInv, agenda # <<>>, Then(<<>>)
  PROVE  /\ agenda' \in Seq(Calls) /\ InOrderNow'
         /\ KindsNow' = KindsOf(Rest) /\ ToSet(agenda') = ToSet(Rest)
<1>1. <<>> \in Seq(Calls)
  OBVIOUS
<1>2. \A x \in KindsOf(<<>>), y \in KindsOf(Rest) : y \in After(x)
  BY KindsOfNone
<1>3. Ordered(<<>>)
  BY KindsOfNone
<1>4. /\ agenda' \in Seq(Calls) /\ InOrderNow'
      /\ KindsNow' = KindsOf(<<>>) \cup KindsOf(Rest)
      /\ ToSet(agenda') = ToSet(<<>>) \cup ToSet(Rest)
  BY <1>1, <1>2, <1>3, AgendaOfStep
<1> QED
  BY <1>4, KindsOfNone, Zenon

LEMMA BuildKeeps == ASSUME ReadyInv, Build PROVE ReadyInv'
<1> DEFINE T == KindsOf(Rest)
<1>0. agenda # <<>> /\ Head(agenda).do = "build" /\ Then(<<>>)
  BY DEF Build, First
<1>1. /\ UNCHANGED <<chan, timers, scripts, scriptCounter, symbols, window, readyState,
                     listens, heard, constructor, secret, left>>
  BY DEF Build, loaderVars, pageVars, setupVars
<1>2. /\ KindsNow = {"build"} \cup T /\ ToSet(agenda) = {Head(agenda)} \cup ToSet(Rest)
      /\ T \subseteq {"require", "init", "build", "hook", "bootstrap", "loadPlugins", "joinInit",
             "assign", Cordova, "joinReady", "settle"}
      /\ Head(agenda) # Do("assign", Head(agenda).on)
  BY <1>0, AgendaBefore, CallIs, AfterIs DEF Do
<1>3. /\ agenda' \in Seq(Calls) /\ InOrderNow'
      /\ KindsNow' = T /\ ToSet(agenda') = ToSet(Rest)
  BY <1>0, AgendaDone
<1> HIDE DEF T
<1> USE DEF ReadyInv
<1>4. BootTyped'
  BY <1>1, <1>3 DEF BootTyped
<1>5. Waiting'
  BY <1>1 DEF Waiting, Waits
<1>6. InitJoin'
  BY <1>1, <1>2, <1>3 DEF InitJoin, InitPending, Count, Has, Waits, IsFired, Early, Native,
     Cordova, PluginsReady
<1>7. ReadyJoin'
  BY <1>1, <1>2, <1>3 DEF ReadyJoin, InitJoin, ReadyPending, Count, Has, Waits, IsFired,
     Cordova, Dom
<1>8. PluginsCome'
  BY <1>1, <1>2, <1>3 DEF PluginsCome, Has, IsFired, Timed, Early
<1>9. ScriptsCounted'
  BY <1>1 DEF ScriptsCounted
<1>10. Outside'
  BY <1>1, <1>2, <1>3 DEF Outside, Has, IsFired
<1>11. Mapped'
  BY <1>1, <1>2, <1>3 DEF Mapped, Has, IsFired, Do
<1>12. Told'
  BY <1>1, <1>2, <1>3 DEF Told, Has, IsFired, Timed
<1>13. Constructs'
  BY <1>1, <1>2, <1>3 DEF Constructs, Has, IsFired, Waits
<1> QED
  BY <1>3, <1>4, <1>5, <1>6, <1>7, <1>8, <1>9, <1>10, <1>11, <1>12, <1>13

-----------------------------------------------------------------------------
(* What each call of a task keeps: the calls that change little first. *)

LEMMA ToSetAppend ==
  ASSUME NEW S, NEW s \in Seq(S), NEW x
  PROVE  ToSet(Append(s, x)) = ToSet(s) \cup {x}
<1>1. /\ DOMAIN Append(s, x) = 1 .. Len(s) + 1 /\ Len(s) \in Nat /\ DOMAIN s = 1 .. Len(s)
      /\ \A i \in 1 .. Len(s) : Append(s, x)[i] = s[i]
      /\ Append(s, x)[Len(s) + 1] = x
  OBVIOUS
<1>2. \A i \in DOMAIN Append(s, x) : i \in DOMAIN s \/ i = Len(s) + 1
  BY <1>1
<1>3. Len(s) + 1 \in DOMAIN Append(s, x) /\ \A i \in DOMAIN s : i \in DOMAIN Append(s, x)
  BY <1>1
<1> HIDE DEF ToSet
<1> DEFINE a == Append(s, x)
<1>4. \A i \in DOMAIN s : a[i] = s[i]
  BY <1>1
<1>5. a[Len(s) + 1] = x
  BY <1>1
<1> HIDE DEF a
<1>6. ToSet(a) = ToSet(s) \cup {x}
  BY <1>2, <1>3, <1>4, <1>5, Zenon DEF ToSet, a
<1> QED
  BY <1>6 DEF a

LEMMA AssignKeeps == ASSUME ReadyInv, Assign PROVE ReadyInv'
<1> DEFINE T == KindsOf(Rest)
<1>0. agenda # <<>> /\ Head(agenda).do = "assign" /\ Then(<<>>)
  BY DEF Assign, First
<1>1. UNCHANGED <<chan, timers, scripts, scriptCounter, symbols, readyState, listens, heard,
                  constructor, secret, left>>
  BY DEF Assign, loaderVars, moduleVars, pageVars, setupVars
<1>2. /\ KindsNow = {"assign"} \cup T /\ ToSet(agenda) = {Head(agenda)} \cup ToSet(Rest)
      /\ T \subseteq {"require", "assign", "build", Cordova, "joinReady", "settle"}
  BY <1>0, AgendaBefore, CallIs, AfterIs DEF Do
<1>3. /\ agenda' \in Seq(Calls) /\ InOrderNow'
      /\ KindsNow' = T /\ ToSet(agenda') = ToSet(Rest)
  BY <1>0, AgendaDone
<1>4. window' = window \cup {Head(agenda).on} /\ Head(agenda) = Do("assign", Head(agenda).on)
  BY <1>0, AgendaBefore, CallIs DEF Assign
<1> HIDE DEF T
<1> USE DEF ReadyInv
<1>5. BootTyped'
  BY <1>1, <1>2, <1>3 DEF BootTyped
<1>6. Waiting'
  BY <1>1, <1>2, <1>3 DEF Waiting, Waits
<1>7. InitJoin'
  BY <1>1, <1>2, <1>3 DEF InitJoin, InitPending, Count, Has, Waits, IsFired, Early, Native,
    Cordova, PluginsReady
<1>8. ReadyJoin'
  BY <1>1, <1>2, <1>3 DEF ReadyJoin, InitJoin, ReadyPending, Count, Has, Waits, IsFired,
    Cordova, Dom
<1>9. PluginsCome'
  BY <1>1, <1>2, <1>3 DEF PluginsCome, Has, IsFired, Timed, Early, PluginsReady
<1>10. ScriptsCounted'
  BY <1>1, <1>2, <1>3 DEF ScriptsCounted
<1>11. Outside'
  BY <1>1, <1>2, <1>3 DEF Outside, Has, IsFired, Native, Dom
<1>12. Mapped'
  BY <1>1, <1>2, <1>3, <1>4 DEF Mapped, Has, IsFired, Do, Cordova
<1>13. Told'
  BY <1>1, <1>2, <1>3 DEF Told, Has, IsFired, Timed
<1>14. Constructs'
  BY <1>1, <1>2, <1>3 DEF Constructs, Has, IsFired, Waits
<1> QED
  BY <1>3, <1>5, <1>6, <1>7, <1>8, <1>9, <1>10, <1>11, <1>12, <1>13, <1>14

LEMMA DeferKeeps == ASSUME ReadyInv, Defer PROVE ReadyInv'
<1> DEFINE T == KindsOf(Rest)
<1>0. agenda # <<>> /\ Head(agenda).do = "defer" /\ Then(<<>>)
  BY DEF Defer, First
<1>1. UNCHANGED <<chan, scripts, scriptCounter, symbols, window, readyState, listens, heard,
                  constructor, secret, left>>
  BY DEF Defer, loaderVars, moduleVars, pageVars, setupVars
<1>2. /\ \/ /\ Head(agenda).on = "loadPlugins" /\ KindsNow = {"loadPlugins"} \cup T
            /\ T \subseteq {"joinInit", "build"}
         \/ /\ Head(agenda).on = "deviceready" /\ KindsNow = {"fireLater"} \cup T
            /\ T \subseteq {"waitDom", "build", "settle", "require"}
      /\ ToSet(agenda) = {Head(agenda)} \cup ToSet(Rest)
      /\ Head(agenda) # Do("assign", Head(agenda).on)
  BY <1>0, AgendaBefore, CallIs, AfterIs DEF Do
<1>3. /\ agenda' \in Seq(Calls) /\ InOrderNow'
      /\ KindsNow' = T /\ ToSet(agenda') = ToSet(Rest)
  BY <1>0, AgendaDone
<1>4. /\ timers' \in Seq({"loadPlugins", "deviceready"})
      /\ ToSet(timers') = ToSet(timers) \cup {Head(agenda).on}
      /\ Head(agenda).on \in {"loadPlugins", "deviceready"}
      /\ timers' = Append(timers, Head(agenda).on)
  <2>1. /\ timers \in Seq({"loadPlugins", "deviceready"})
        /\ Head(agenda).on \in {"loadPlugins", "deviceready"}
    BY <1>0, AgendaBefore, CallIs DEF ReadyInv, BootTyped
  <2> QED
    BY <2>1, ToSetAppend DEF Defer
<1> HIDE DEF T
<1> USE DEF ReadyInv
<1>5. BootTyped'
  BY <1>1, <1>2, <1>3, <1>4 DEF BootTyped
<1>6. Waiting'
  BY <1>1, <1>2, <1>3, <1>4 DEF Waiting, Waits
<1>7. InitJoin'
  BY <1>1, <1>2, <1>3, <1>4 DEF InitJoin, InitPending, Count, Has, Waits, IsFired, Early,
    Native, Cordova, PluginsReady
<1>8. ReadyJoin'
  BY <1>1, <1>2, <1>3, <1>4 DEF ReadyJoin, InitJoin, ReadyPending, Count, Has, Waits,
    IsFired, Cordova, Dom
<1>9. PluginsCome'
  <2>1. CASE Head(agenda).on = "loadPlugins"
    <3>1. ~Timed("deviceready") /\ ~Timed("loadPlugins")
      BY <1>2, <2>1 DEF PluginsCome, InitJoin, Told, Has, Timed, Early
    <3>2. timers = <<>>
      <4>1. \A i \in DOMAIN timers : timers[i] \in {"loadPlugins", "deviceready"}
        BY DEF BootTyped
      <4>2. DOMAIN timers = {}
        BY <3>1, <4>1 DEF Timed, ToSet
      <4> QED
        BY <4>2 DEF BootTyped
    <3>3. timers' = <<"loadPlugins">>
      BY <1>4, <2>1, <3>2
    <3> QED
      BY <1>1, <1>2, <1>3, <2>1, <3>3 DEF PluginsCome, Has, IsFired, Timed, Early, PluginsReady
  <2>2. CASE Head(agenda).on = "deviceready"
    <3>1. ~Timed("loadPlugins") /\ ~Timed("loadPlugins")'
      BY <1>2, <1>4, <2>2 DEF PluginsCome, InitJoin, Told, Has, Timed
    <3> QED
      BY <1>1, <1>2, <1>3, <2>2, <3>1 DEF PluginsCome, Has, IsFired, Early, PluginsReady
  <2> QED
    BY <1>4, <2>1, <2>2
<1>10. ScriptsCounted'
  BY <1>1, <1>2, <1>3, <1>4 DEF ScriptsCounted
<1>11. Outside'
  BY <1>1, <1>2, <1>3, <1>4 DEF Outside, Has, IsFired, Native, Dom
<1>12. Mapped'
  BY <1>1, <1>2, <1>3, <1>4 DEF Mapped, Has, IsFired, Do, Cordova
<1>13. Told'
  BY <1>1, <1>2, <1>3, <1>4 DEF Told, Has, IsFired, Timed
<1>14. Constructs'
  BY <1>1, <1>2, <1>3, <1>4 DEF Constructs, Has, IsFired, Waits
<1> QED
  BY <1>3, <1>5, <1>6, <1>7, <1>8, <1>9, <1>10, <1>11, <1>12, <1>13, <1>14

LEMMA CallHandlerKeeps == ASSUME ReadyInv, CallHandler PROVE ReadyInv'
<1> DEFINE T == KindsOf(Rest)
<1>0. agenda # <<>> /\ Head(agenda).do = "call" /\ Then(<<>>)
  BY DEF CallHandler, First
<1>1. UNCHANGED <<chan, timers, scripts, scriptCounter, symbols, window, readyState, listens,
                  secret, left>>
  BY DEF CallHandler, loaderVars, moduleVars, pageVars, setupVars
<1>2. /\ Head(agenda).on \in {"show", "construct", "onReady"} /\ KindsNow = {Head(agenda).on} \cup T
      /\ T \subseteq {"deviceready", "onReady", "show", "construct", "joinReady", "build", "settle"}
      /\ Head(agenda).on = "onReady" => T \subseteq {"deviceready", "onReady", "settle"}
      /\ Head(agenda).on # "onReady" => T \subseteq {"show", "construct", "joinReady", "build", "settle"}
      /\ ToSet(agenda) = {Head(agenda)} \cup ToSet(Rest)
      /\ Head(agenda) # Do("assign", Head(agenda).on)
  BY <1>0, AgendaBefore, CallIs, AfterIs DEF Do, CallHandler
<1>3. /\ agenda' \in Seq(Calls) /\ InOrderNow'
      /\ KindsNow' = T /\ ToSet(agenda') = ToSet(Rest)
  BY <1>0, AgendaDone
<1>4. /\ heard' = IF Head(agenda).on = "onReady" THEN heard + 1 ELSE heard
      /\ constructor' = IF Head(agenda).on = "construct" THEN "run" ELSE constructor
  BY DEF CallHandler
<1> HIDE DEF T
<1> USE DEF ReadyInv
<1>5. BootTyped'
  BY <1>1, <1>2, <1>3, <1>4 DEF BootTyped
<1>6. Waiting'
  BY <1>1, <1>2, <1>3, <1>4 DEF Waiting, Waits
<1>7. InitJoin'
  BY <1>1, <1>2, <1>3, <1>4 DEF InitJoin, InitPending, Count, Has, Waits, IsFired, Early,
    Native, Cordova, PluginsReady
<1>8. ReadyJoin'
  BY <1>1, <1>2, <1>3, <1>4 DEF ReadyJoin, InitJoin, ReadyPending, Count, Has, Waits,
    IsFired, Cordova, Dom
<1>9. PluginsCome'
  BY <1>1, <1>2, <1>3, <1>4 DEF PluginsCome, Has, IsFired, Timed, Early, PluginsReady
<1>10. ScriptsCounted'
  BY <1>1, <1>2, <1>3, <1>4 DEF ScriptsCounted
<1>11. Outside'
  BY <1>1, <1>2, <1>3, <1>4 DEF Outside, Has, IsFired, Native, Dom
<1>12. Mapped'
  BY <1>1, <1>2, <1>3, <1>4 DEF Mapped, Has, IsFired, Do, Cordova
<1>13. Told'
  BY <1>1, <1>2, <1>3, <1>4 DEF Told, Has, IsFired, Timed
<1>14. Constructs'
  BY <1>1, <1>2, <1>3, <1>4 DEF Constructs, Has, IsFired, Waits
<1> QED
  BY <1>3, <1>5, <1>6, <1>7, <1>8, <1>9, <1>10, <1>11, <1>12, <1>13, <1>14

-----------------------------------------------------------------------------
(* cordova/init, its joins and the plugin loader's last call *)

LEMMA StepOne ==
  ASSUME ReadyInv, agenda # <<>>, NEW x \in Calls, Then(<<x>>),
         KindsOf(Rest) \subseteq After(KindOf(x))
  PROVE  /\ agenda' \in Seq(Calls) /\ InOrderNow'
         /\ KindsNow' = {KindOf(x)} \cup KindsOf(Rest)
         /\ ToSet(agenda') = {x} \cup ToSet(Rest)
<1>1. <<x>> \in Seq(Calls)
  OBVIOUS
<1>2. KindsOf(<<x>>) = {KindOf(x)} /\ Ordered(<<x>>) /\ ToSet(<<x>>) = {x}
  BY KindsOfOne
<1>3. \A y \in KindsOf(<<x>>), z \in KindsOf(Rest) : z \in After(y)
  BY <1>2
<1>4. /\ agenda' \in Seq(Calls) /\ InOrderNow'
      /\ KindsNow' = KindsOf(<<x>>) \cup KindsOf(Rest)
      /\ ToSet(agenda') = ToSet(<<x>>) \cup ToSet(Rest)
  BY <1>1, <1>2, <1>3, AgendaOfStep
<1> QED
  BY <1>2, <1>4, Zenon

LEMMA PairOfCalls ==
  ASSUME NEW x \in Calls, NEW y \in Calls, KindOf(y) \in After(KindOf(x))
  PROVE  /\ <<x, y>> \in Seq(Calls) /\ Ordered(<<x, y>>)
         /\ KindsOf(<<x, y>>) = {KindOf(x), KindOf(y)}
         /\ ToSet(<<x, y>>) = {x, y}
<1> DEFINE p == <<x, y>>
<1>1. p \in Seq(Calls) /\ DOMAIN p = {1, 2} /\ p[1] = x /\ p[2] = y
  OBVIOUS
<1> HIDE DEF p
<1>2. KindsOf(p) = {KindOf(x), KindOf(y)} /\ ToSet(p) = {x, y}
  <2>1. KindsOf(p) = {KindOf(p[1]), KindOf(p[2])} /\ ToSet(p) = {p[1], p[2]}
    BY <1>1, Zenon DEF KindsOf, ToSet
  <2> QED
    BY <1>1, <2>1, Zenon
<1>3. Ordered(p)
  <2>1. ASSUME NEW i \in {1, 2}, NEW j \in {1, 2}, i < j PROVE i = 1 /\ j = 2
    BY <2>1
  <2> QED
    BY <1>1, <2>1 DEF Ordered
<1> QED
  BY <1>1, <1>2, <1>3 DEF p

LEMMA StepTwo ==
  ASSUME ReadyInv, agenda # <<>>, NEW x \in Calls, NEW y \in Calls, Then(<<x, y>>),
         KindOf(y) \in After(KindOf(x)),
         KindsOf(Rest) \subseteq After(KindOf(x)), KindsOf(Rest) \subseteq After(KindOf(y))
  PROVE  /\ agenda' \in Seq(Calls) /\ InOrderNow'
         /\ KindsNow' = {KindOf(x), KindOf(y)} \cup KindsOf(Rest)
         /\ ToSet(agenda') = {x, y} \cup ToSet(Rest)
<1>2. /\ <<x, y>> \in Seq(Calls) /\ Ordered(<<x, y>>)
      /\ KindsOf(<<x, y>>) = {KindOf(x), KindOf(y)}
      /\ ToSet(<<x, y>>) = {x, y}
  BY PairOfCalls
<1>3. \A v \in KindsOf(<<x, y>>), z \in KindsOf(Rest) : z \in After(v)
  BY <1>2
<1>4. /\ agenda' \in Seq(Calls) /\ InOrderNow'
      /\ KindsNow' = KindsOf(<<x, y>>) \cup KindsOf(Rest)
      /\ ToSet(agenda') = ToSet(<<x, y>>) \cup ToSet(Rest)
  BY <1>2, <1>3, AgendaOfStep
<1> QED
  BY <1>2, <1>4, Zenon

LEMMA HookKeeps == ASSUME ReadyInv, Hook PROVE ReadyInv'
<1> DEFINE T == KindsOf(Rest)
<1>0. agenda # <<>> /\ Head(agenda).do = "hook"
  BY DEF Hook, First
<1>1. UNCHANGED <<chan, timers, scripts, scriptCounter, window, readyState, listens, heard,
                  constructor, secret, left>>
  BY DEF Hook, loaderVars, moduleVars, pageVars, setupVars
<1>2. /\ KindsNow = {"hook"} \cup T /\ ToSet(agenda) = {Head(agenda)} \cup ToSet(Rest)
      /\ T \subseteq {"require", "bootstrap", "loadPlugins", "joinInit", "build"}
      /\ Head(agenda) # Do("assign", Head(agenda).on)
  BY <1>0, AgendaBefore, CallIs, AfterIs DEF Do
<1>3. /\ agenda' \in Seq(Calls)
      /\ InOrderNow'
      /\ T \subseteq KindsNow'
      /\ ToSet(Rest) \subseteq ToSet(agenda')
      /\ KindsNow' \subseteq {Dom} \cup T
      /\ readyState = "loading" => KindsNow' = T
  <2>1. CASE readyState = "loading"
    <3>1. Then(<<>>)
      BY <2>1 DEF Hook
    <3>2. /\ agenda' \in Seq(Calls) /\ InOrderNow'
          /\ KindsNow' = T /\ ToSet(agenda') = ToSet(Rest)
      BY <1>0, <3>1, AgendaDone
    <3> QED
      BY <3>2
  <2>2. CASE readyState # "loading"
    <3>1. Then(<<Do("fire", Dom)>>)
      BY <2>2 DEF Hook, Dom
    <3>2. Do("fire", Dom) \in Calls /\ KindOf(Do("fire", Dom)) = Dom
      BY NamesInCalls, KindsOfCalls DEF Dom, StickyChannels
    <3>3. T \subseteq After(Dom)
      BY <1>2, AfterIs
    <3>4. /\ agenda' \in Seq(Calls) /\ InOrderNow'
          /\ KindsNow' = {KindOf(Do("fire", Dom))} \cup T
          /\ ToSet(agenda') = {Do("fire", Dom)} \cup ToSet(Rest)
      BY <1>0, <3>1, <3>2, <3>3, StepOne
    <3> QED
      BY <2>2, <3>2, <3>4
  <2> QED
    BY <2>1, <2>2
<1>4. symbols' \in Seq(Modules \ {"init"})
  <2>1. "cordova" \in Modules \ {"init"} /\ "exec" \in Modules \ {"init"}
    BY DEF Modules, CoreModules, Requires
  <2> QED
    BY <2>1 DEF Hook
<1>5. ~IsFired(Cordova)
  BY <1>2 DEF ReadyInv, InitJoin, PluginsCome, Has, Early
<1> HIDE DEF T
<1> USE DEF ReadyInv
<1>6. BootTyped'
  BY <1>1, <1>2, <1>3, <1>4, <1>5 DEF BootTyped
<1>7. Waiting'
  BY <1>1, <1>2, <1>3, <1>4, <1>5 DEF Waiting, Waits
<1>8. InitJoin'
  BY <1>1, <1>2, <1>3, <1>4, <1>5 DEF InitJoin, InitPending, Count, Has, Waits, IsFired,
    Early, Native, Cordova, PluginsReady, Dom
<1>9. ReadyJoin'
  BY <1>1, <1>2, <1>3, <1>4, <1>5 DEF ReadyJoin, InitJoin, ReadyPending, Count, Has, Waits,
    IsFired, Cordova, Dom, PluginsReady
<1>10. PluginsCome'
  BY <1>1, <1>2, <1>3, <1>4, <1>5 DEF PluginsCome, Has, IsFired, Timed, Early, PluginsReady,
    Dom
<1>11. ScriptsCounted'
  BY <1>1, <1>2, <1>3, <1>4, <1>5 DEF ScriptsCounted
<1>12. Outside'
  BY <1>1, <1>2, <1>3, <1>4, <1>5 DEF Outside, Has, IsFired, Native, Dom, BootTyped
<1>13. Mapped'
  BY <1>1, <1>2, <1>3, <1>4, <1>5 DEF Mapped, Has, IsFired, Do, Cordova, Dom
<1>14. Told'
  BY <1>1, <1>2, <1>3, <1>4, <1>5 DEF Told, Has, IsFired, Timed, Dom, Cordova
<1>15. Constructs'
  BY <1>1, <1>2, <1>3, <1>4, <1>5 DEF Constructs, Has, IsFired, Waits, Dom, Cordova
<1> QED
  BY <1>3, <1>6, <1>7, <1>8, <1>9, <1>10, <1>11, <1>12, <1>13, <1>14, <1>15

LEMMA BootstrapKeeps == ASSUME ReadyInv, Bootstrap PROVE ReadyInv'
<1> DEFINE T == KindsOf(Rest)
<1>0. agenda # <<>> /\ Head(agenda).do = "bootstrap"
  BY DEF Bootstrap, First
<1>1. UNCHANGED <<chan, timers, scripts, scriptCounter, window, readyState, listens, heard,
                  constructor, left>>
  BY DEF Bootstrap, loaderVars, moduleVars, pageVars, setupVars
<1>2. /\ KindsNow = {"bootstrap"} \cup T /\ ToSet(agenda) = {Head(agenda)} \cup ToSet(Rest)
      /\ T \subseteq {"loadPlugins", "joinInit", "build"}
      /\ Head(agenda) # Do("assign", Head(agenda).on)
  BY <1>0, AgendaBefore, CallIs, AfterIs DEF Do
<1>3. /\ agenda' \in Seq(Calls) /\ InOrderNow'
      /\ KindsNow' = {Native, "waitShow"} \cup T
      /\ ToSet(agenda') = {Do("fire", Native), Sub(Cordova, "show")} \cup ToSet(Rest)
  <2>1. Then(<<Do("fire", Native), Sub(Cordova, "show")>>)
    BY DEF Bootstrap, Native, Cordova
  <2>2. /\ Do("fire", Native) \in Calls /\ KindOf(Do("fire", Native)) = Native
        /\ Sub(Cordova, "show") \in Calls /\ KindOf(Sub(Cordova, "show")) = "waitShow"
    BY NamesInCalls, KindsOfCalls DEF Native, StickyChannels, OtherSubs
  <2>3. "waitShow" \in After(Native) /\ T \subseteq After(Native) /\ T \subseteq After("waitShow")
    BY <1>2, AfterIs
  <2> QED
    BY <1>0, <2>1, <2>2, <2>3, StepTwo
<1>4. symbols' \in Seq(Modules \ {"init"}) /\ secret'
  <2>1. "app" \in Modules \ {"init"}
    BY DEF Modules, CoreModules, Requires
  <2> QED
    BY <2>1 DEF Bootstrap, ReadyInv, BootTyped
<1>5. ~IsFired(Cordova)
  BY <1>2 DEF ReadyInv, InitJoin, PluginsCome, Has, Early
<1> HIDE DEF T
<1> USE DEF ReadyInv
<1>6. BootTyped'
  BY <1>1, <1>2, <1>3, <1>4, <1>5 DEF BootTyped
<1>7. Waiting'
  BY <1>1, <1>2, <1>3, <1>4, <1>5 DEF Waiting, Waits
<1>8. InitJoin'
  BY <1>1, <1>2, <1>3, <1>4, <1>5 DEF InitJoin, InitPending, Count, Has, Waits, IsFired,
    Early, Native, Cordova, PluginsReady
<1>9. ReadyJoin'
  BY <1>1, <1>2, <1>3, <1>4, <1>5 DEF ReadyJoin, InitJoin, ReadyPending, Count, Has, Waits,
    IsFired, Cordova, Dom, Native
<1>10. PluginsCome'
  BY <1>1, <1>2, <1>3, <1>4, <1>5 DEF PluginsCome, Has, IsFired, Timed, Early, PluginsReady,
    Native
<1>11. ScriptsCounted'
  BY <1>1, <1>2, <1>3, <1>4, <1>5 DEF ScriptsCounted
<1>12. Outside'
  BY <1>1, <1>2, <1>3, <1>4, <1>5 DEF Outside, Has, IsFired, Native, Dom
<1>13. Mapped'
  BY <1>1, <1>2, <1>3, <1>4, <1>5 DEF Mapped, Has, IsFired, Do, Cordova, Native
<1>14. Told'
  BY <1>1, <1>2, <1>3, <1>4, <1>5 DEF Told, Has, IsFired, Timed, Native, Cordova
<1>15. Constructs'
  BY <1>1, <1>2, <1>3, <1>4, <1>5 DEF Constructs, Has, IsFired, Waits, Native, Cordova
<1> QED
  BY <1>3, <1>6, <1>7, <1>8, <1>9, <1>10, <1>11, <1>12, <1>13, <1>14, <1>15

LEMMA JoinInitKeeps == ASSUME ReadyInv, JoinInit PROVE ReadyInv'
<1> DEFINE T == KindsOf(Rest)
<1>0. agenda # <<>> /\ Head(agenda).do = "joinInit"
  BY DEF JoinInit, First
<1>1. UNCHANGED <<chan, timers, scripts, scriptCounter, symbols, window, readyState, listens,
                  heard, constructor, secret>>
  BY DEF JoinInit, loaderVars, moduleVars, pageVars, setupVars
<1>2. /\ KindsNow = {"joinInit"} \cup T /\ ToSet(agenda) = {Head(agenda)} \cup ToSet(Rest)
      /\ T \subseteq {"build"}
      /\ Head(agenda) # Do("assign", Head(agenda).on)
  BY <1>0, AgendaBefore, CallIs, AfterIs DEF Do
<1>3. /\ agenda' \in Seq(Calls) /\ InOrderNow'
      /\ KindsNow' = {"waitNative", "waitPlugins"} \cup T
      /\ ToSet(agenda') = {Sub(Native, "initStep"), Sub(PluginsReady, "initStep")} \cup ToSet(Rest)
  <2>1. Then(<<Sub(Native, "initStep"), Sub(PluginsReady, "initStep")>>)
    <3>1. [i \in DOMAIN <<Native, PluginsReady>> |-> Sub(<<Native, PluginsReady>>[i], "initStep")]
              = <<Sub(Native, "initStep"), Sub(PluginsReady, "initStep")>>
      OBVIOUS
    <3> QED
      BY <3>1 DEF JoinInit, JoinChannels, Native, PluginsReady
  <2>2. /\ Sub(Native, "initStep") \in Calls /\ KindOf(Sub(Native, "initStep")) = "waitNative"
        /\ Sub(PluginsReady, "initStep") \in Calls
        /\ KindOf(Sub(PluginsReady, "initStep")) = "waitPlugins"
    BY NamesInCalls, KindsOfCalls DEF JoinSubs
  <2>3. /\ "waitPlugins" \in After("waitNative")
        /\ T \subseteq After("waitNative")
        /\ T \subseteq After("waitPlugins")
    BY <1>2, AfterIs
  <2> QED
    BY <1>0, <2>1, <2>2, <2>3, StepTwo
<1>4. left' = [left EXCEPT !.init = 2]
  BY DEF JoinInit, JoinChannels
<1> HIDE DEF T
<1> USE DEF ReadyInv
<1>5. BootTyped'
  BY <1>1, <1>2, <1>3, <1>4 DEF BootTyped
<1>6. Waiting'
  BY <1>1, <1>2, <1>3, <1>4 DEF Waiting, Waits
<1>7. InitJoin'
  BY <1>1, <1>2, <1>3, <1>4 DEF InitJoin, InitPending, Count, Has, Waits, IsFired, Early,
    Native, Cordova, PluginsReady, Waiting, PluginsCome
<1>8. ReadyJoin'
  BY <1>1, <1>2, <1>3, <1>4 DEF ReadyJoin, InitJoin, ReadyPending, Count, Has, Waits,
    IsFired, Cordova, Dom
<1>9. PluginsCome'
  BY <1>1, <1>2, <1>3, <1>4 DEF PluginsCome, Has, IsFired, Timed, Early, PluginsReady
<1>10. ScriptsCounted'
  BY <1>1, <1>2, <1>3, <1>4 DEF ScriptsCounted
<1>11. Outside'
  BY <1>1, <1>2, <1>3, <1>4 DEF Outside, Has, IsFired, Native, Dom
<1>12. Mapped'
  BY <1>1, <1>2, <1>3, <1>4 DEF Mapped, Has, IsFired, Do, Cordova
<1>13. Told'
  BY <1>1, <1>2, <1>3, <1>4 DEF Told, Has, IsFired, Timed
<1>14. Constructs'
  BY <1>1, <1>2, <1>3, <1>4 DEF Constructs, Has, IsFired, Waits
<1> QED
  BY <1>3, <1>5, <1>6, <1>7, <1>8, <1>9, <1>10, <1>11, <1>12, <1>13, <1>14

LEMMA JoinReadyKeeps == ASSUME ReadyInv, JoinReady PROVE ReadyInv'
<1> DEFINE T == KindsOf(Rest)
<1>0. agenda # <<>> /\ Head(agenda).do = "joinReady"
  BY DEF JoinReady, First
<1>1. UNCHANGED <<chan, timers, scripts, scriptCounter, symbols, window, readyState, listens,
                  heard, constructor, secret>>
  BY DEF JoinReady, loaderVars, moduleVars, pageVars, setupVars
<1>2. /\ KindsNow = {"joinReady"} \cup T /\ ToSet(agenda) = {Head(agenda)} \cup ToSet(Rest)
      /\ T \subseteq {"build", "settle"}
      /\ Head(agenda) # Do("assign", Head(agenda).on)
  BY <1>0, AgendaBefore, CallIs, AfterIs DEF Do
<1>3. /\ agenda' \in Seq(Calls) /\ InOrderNow'
      /\ KindsNow' = {"waitCordova", "waitDom"} \cup T
      /\ ToSet(agenda') = {Sub(Cordova, "readyStep"), Sub(Dom, "readyStep")} \cup ToSet(Rest)
  <2>1. Then(<<Sub(Cordova, "readyStep"), Sub(Dom, "readyStep")>>)
    <3>1. [i \in DOMAIN <<Cordova, Dom>> |-> Sub(<<Cordova, Dom>>[i], "readyStep")]
              = <<Sub(Cordova, "readyStep"), Sub(Dom, "readyStep")>>
      OBVIOUS
    <3> QED
      BY <3>1 DEF JoinReady, JoinChannels, Cordova, Dom
  <2>2. /\ Sub(Cordova, "readyStep") \in Calls /\ KindOf(Sub(Cordova, "readyStep")) = "waitCordova"
        /\ Sub(Dom, "readyStep") \in Calls /\ KindOf(Sub(Dom, "readyStep")) = "waitDom"
    BY NamesInCalls, KindsOfCalls DEF JoinSubs
  <2>3. /\ "waitDom" \in After("waitCordova")
        /\ T \subseteq After("waitCordova")
        /\ T \subseteq After("waitDom")
    BY <1>2, AfterIs
  <2> QED
    BY <1>0, <2>1, <2>2, <2>3, StepTwo
<1>4. left' = [left EXCEPT !.ready = 2]
  BY DEF JoinReady, JoinChannels
<1> HIDE DEF T
<1> USE DEF ReadyInv
<1>5. BootTyped'
  BY <1>1, <1>2, <1>3, <1>4 DEF BootTyped
<1>6. Waiting'
  BY <1>1, <1>2, <1>3, <1>4 DEF Waiting, Waits
<1>7. InitJoin'
  BY <1>1, <1>2, <1>3, <1>4 DEF InitJoin, InitPending, Count, Has, Waits, IsFired, Early,
    Native, Cordova, PluginsReady
<1>8. ReadyJoin'
  BY <1>1, <1>2, <1>3, <1>4 DEF ReadyJoin, InitJoin, ReadyPending, Count, Has, Waits,
    IsFired, Cordova, Dom
<1>9. PluginsCome'
  BY <1>1, <1>2, <1>3, <1>4 DEF PluginsCome, Has, IsFired, Timed, Early, PluginsReady
<1>10. ScriptsCounted'
  BY <1>1, <1>2, <1>3, <1>4 DEF ScriptsCounted
<1>11. Outside'
  BY <1>1, <1>2, <1>3, <1>4 DEF Outside, Has, IsFired, Native, Dom
<1>12. Mapped'
  BY <1>1, <1>2, <1>3, <1>4 DEF Mapped, Has, IsFired, Do, Cordova
<1>13. Told'
  BY <1>1, <1>2, <1>3, <1>4 DEF Told, Has, IsFired, Timed
<1>14. Constructs'
  BY <1>1, <1>2, <1>3, <1>4 DEF Constructs, Has, IsFired, Waits
<1> QED
  BY <1>3, <1>5, <1>6, <1>7, <1>8, <1>9, <1>10, <1>11, <1>12, <1>13, <1>14

LEMMA ReadyStepKeeps == ASSUME ReadyInv, ReadyStep PROVE ReadyInv'
<1> DEFINE T == KindsOf(Rest)
<1>0. agenda # <<>> /\ Head(agenda).do = "call"
  BY DEF ReadyStep, First
<1>1. UNCHANGED <<chan, timers, scripts, scriptCounter, symbols, window, readyState, listens,
                  heard, constructor, secret>>
  BY DEF ReadyStep, loaderVars, moduleVars, pageVars, setupVars
<1>2. /\ KindsNow = {"readyStep"} \cup T /\ ToSet(agenda) = {Head(agenda)} \cup ToSet(Rest)
      /\ T \subseteq {"waitDom", "build", "settle", "require"}
      /\ Head(agenda) # Do("assign", Head(agenda).on)
  BY <1>0, AgendaBefore, CallIs, AfterIs DEF Do, ReadyStep
<1>3. /\ agenda' \in Seq(Calls) /\ InOrderNow' /\ ToSet(Rest) \subseteq ToSet(agenda')
      /\ \/ KindsNow' = T
         \/ KindsNow' = {"fireLater"} \cup T /\ left.ready = 1
  <2>1. CASE left.ready # 1
    <3>1. Then(<<>>)
      BY <2>1 DEF ReadyStep
    <3>2. /\ agenda' \in Seq(Calls) /\ InOrderNow'
          /\ KindsNow' = T /\ ToSet(agenda') = ToSet(Rest)
      BY <1>0, <3>1, AgendaDone
    <3> QED
      BY <3>2
  <2>2. CASE left.ready = 1
    <3>1. Then(<<Do("defer", "deviceready")>>)
      BY <2>2 DEF ReadyStep
    <3>2. Do("defer", "deviceready") \in Calls /\ KindOf(Do("defer", "deviceready")) = "fireLater"
      BY NamesInCalls, KindsOfCalls
    <3>3. T \subseteq After("fireLater")
      BY <1>2, AfterIs
    <3>4. /\ agenda' \in Seq(Calls) /\ InOrderNow'
          /\ KindsNow' = {KindOf(Do("defer", "deviceready"))} \cup T
          /\ ToSet(agenda') = {Do("defer", "deviceready")} \cup ToSet(Rest)
      BY <1>0, <3>1, <3>2, <3>3, StepOne
    <3> QED
      BY <2>2, <3>2, <3>4
  <2> QED
    BY <2>1, <2>2
<1>4. left' = [left EXCEPT !.ready = @ - 1]
  BY DEF ReadyStep
<1> HIDE DEF T
<1> USE DEF ReadyInv
<1>5. BootTyped'
  BY <1>1, <1>2, <1>3, <1>4 DEF BootTyped
<1>6. Waiting'
  BY <1>1, <1>2, <1>3, <1>4 DEF Waiting, Waits
<1>7. InitJoin'
  BY <1>1, <1>2, <1>3, <1>4 DEF InitJoin, InitPending, Count, Has, Waits, IsFired, Early,
    Native, Cordova, PluginsReady, ReadyJoin, ReadyPending, Dom
<1>8. ReadyJoin'
  BY <1>1, <1>2, <1>3, <1>4 DEF ReadyJoin, InitJoin, ReadyPending, Count, Has, Waits,
    IsFired, Cordova, Dom
<1>9. PluginsCome'
  BY <1>1, <1>2, <1>3, <1>4 DEF PluginsCome, Has, IsFired, Timed, Early, PluginsReady
<1>10. ScriptsCounted'
  BY <1>1, <1>2, <1>3, <1>4 DEF ScriptsCounted
<1>11. Outside'
  BY <1>1, <1>2, <1>3, <1>4 DEF Outside, Has, IsFired, Native, Dom
<1>12. Mapped'
  BY <1>1, <1>2, <1>3, <1>4 DEF Mapped, Has, IsFired, Do, Cordova
<1>13. Told'
  BY <1>1, <1>2, <1>3, <1>4 DEF Told, Has, IsFired, Timed, ReadyJoin
<1>14. Constructs'
  BY <1>1, <1>2, <1>3, <1>4 DEF Constructs, Has, IsFired, Waits
<1> QED
  BY <1>3, <1>5, <1>6, <1>7, <1>8, <1>9, <1>10, <1>11, <1>12, <1>13, <1>14

LEMMA PluginsInOrder == SetToSeq(Plugins) \in Seq(Plugins)
<1> DEFINE n == Cardinality(Plugins)
<1>1. n \in Nat /\ ExistsBijection(1 .. n, Plugins)
  BY PluginsAssumption, FS_CardinalityType
<1>2. \E f \in [1 .. n -> Plugins] : IsInjective(f)
  BY <1>1, Zenon DEF ExistsBijection, Bijection, Injection
<1>3. SetToSeq(Plugins) \in [1 .. n -> Plugins]
  BY <1>2, Zenon DEF SetToSeq
<1> QED
  BY <1>1, <1>3

LEMMA ScriptsDoneKeeps == ASSUME ReadyInv, ScriptsDone PROVE ReadyInv'
<1> DEFINE T == KindsOf(Rest)
<1>0. agenda # <<>> /\ Head(agenda).do = "scriptsDone"
  BY DEF ScriptsDone, First
<1>1. UNCHANGED <<chan, timers, scripts, scriptCounter, window, readyState, listens, heard,
                  constructor, secret, left>>
  BY DEF ScriptsDone, loaderVars, moduleVars, pageVars, setupVars
<1>2. /\ KindsNow = {"scriptsDone"} \cup T /\ ToSet(agenda) = {Head(agenda)} \cup ToSet(Rest)
      /\ T \subseteq {}
      /\ Head(agenda) # Do("assign", Head(agenda).on)
  BY <1>0, AgendaBefore, CallIs, AfterIs DEF Do
<1>3. /\ agenda' \in Seq(Calls) /\ InOrderNow'
      /\ symbols' \in Seq(Modules \ {"init"})
      /\ KindsNow' = {} \/ KindsNow' = {PluginsReady}
  <2>1. CASE Plugins \subseteq moduleMap
    <3>1. Then(<<Do("fire", PluginsReady)>>) /\ symbols' = symbols \o SetToSeq(Plugins)
      BY <2>1 DEF ScriptsDone, PluginsReady
    <3>2. Do("fire", PluginsReady) \in Calls /\ KindOf(Do("fire", PluginsReady)) = PluginsReady
      BY NamesInCalls, KindsOfCalls DEF PluginsReady, StickyChannels
    <3>4. /\ agenda' \in Seq(Calls) /\ InOrderNow'
          /\ KindsNow' = {KindOf(Do("fire", PluginsReady))} \cup T
      BY <1>0, <1>2, <3>1, <3>2, StepOne
    <3>5. SetToSeq(Plugins) \in Seq(Plugins)
      BY PluginsInOrder
    <3>6. Plugins \subseteq Modules \ {"init"}
      BY PluginsAssumption DEF Modules, CoreModules, Requires
    <3>7. symbols \o SetToSeq(Plugins) \in Seq(Modules \ {"init"})
      BY <3>5, <3>6 DEF ReadyInv, BootTyped
    <3> QED
      BY <1>2, <3>1, <3>2, <3>4, <3>7
  <2>2. CASE ~(Plugins \subseteq moduleMap)
    <3>1. agenda' = <<>> /\ symbols' = symbols
      BY <2>2 DEF ScriptsDone, Throw
    <3> QED
      BY <3>1, KindsOfNone DEF ReadyInv, BootTyped, KindsNow, InOrderNow
  <2> QED
    BY <2>1, <2>2
<1>4. ~IsFired(Cordova)
  BY <1>2 DEF ReadyInv, InitJoin, PluginsCome, Has, Early
<1> HIDE DEF T
<1> USE DEF ReadyInv
<1>5. BootTyped'
  BY <1>1, <1>2, <1>3, <1>4 DEF BootTyped
<1>6. Waiting'
  BY <1>1, <1>2, <1>3, <1>4 DEF Waiting, Waits
<1>7. InitJoin'
  BY <1>1, <1>2, <1>3, <1>4 DEF InitJoin, InitPending, Count, Has, Waits, IsFired, Early,
    Native, Cordova, PluginsReady
<1>8. ReadyJoin'
  BY <1>1, <1>2, <1>3, <1>4 DEF ReadyJoin, InitJoin, ReadyPending, Count, Has, Waits,
    IsFired, Cordova, Dom, PluginsReady
<1>9. PluginsCome'
  BY <1>1, <1>2, <1>3, <1>4 DEF PluginsCome, Has, IsFired, Timed, Early, PluginsReady
<1>10. ScriptsCounted'
  BY <1>1, <1>2, <1>3, <1>4 DEF ScriptsCounted
<1>11. Outside'
  BY <1>1, <1>2, <1>3, <1>4 DEF Outside, Has, IsFired, Native, Dom, PluginsReady
<1>12. Mapped'
  BY <1>1, <1>2, <1>3, <1>4 DEF Mapped, Has, IsFired, Do, Cordova, PluginsReady
<1>13. Told'
  BY <1>1, <1>2, <1>3, <1>4 DEF Told, Has, IsFired, Timed, Cordova, PluginsReady
<1>14. Constructs'
  BY <1>1, <1>2, <1>3, <1>4 DEF Constructs, Has, IsFired, Waits, PluginsReady, Cordova
<1> QED
  BY <1>3, <1>5, <1>6, <1>7, <1>8, <1>9, <1>10, <1>11, <1>12, <1>13, <1>14

-----------------------------------------------------------------------------
(* Channels: settling, unsubscribing and firing, channel by channel. *)

LEMMA ChannelsApart ==
  /\ StickyChannels = {Native, PluginsReady, Cordova, Dom, "deviceready"}
  /\ StickyChannels \subseteq Channels /\ "backbutton" \in Channels \ StickyChannels
  BY DEF StickyChannels, Channels, Native, PluginsReady, Cordova, Dom

LEMMA SettleKeeps == ASSUME ReadyInv, Settle PROVE ReadyInv'
<1> DEFINE T == KindsOf(Rest)
<1>0. agenda # <<>> /\ Head(agenda).do = "settle" /\ Then(<<>>)
  BY DEF Settle, First
<1>1. UNCHANGED <<timers, scripts, scriptCounter, symbols, window, readyState, listens, heard,
                  constructor, secret, left>>
  BY DEF Settle, loaderVars, moduleVars, pageVars, setupVars
<1>2. /\ KindsNow = {"settle"} \cup T /\ ToSet(agenda) = {Head(agenda)} \cup ToSet(Rest)
      /\ T \subseteq {"joinReady", "build", "settle", "require"}
      /\ Head(agenda) # Do("assign", Head(agenda).on)
  BY <1>0, AgendaBefore, CallIs, AfterIs DEF Do
<1>3. /\ agenda' \in Seq(Calls) /\ InOrderNow'
      /\ KindsNow' = T /\ ToSet(agenda') = ToSet(Rest)
  BY <1>0, AgendaDone
<1>4. \A d \in StickyChannels :
         /\ chan'[d].state = chan[d].state
         /\ \/ chan'[d].handlers = chan[d].handlers
            \/ chan'[d].handlers = <<>> /\ chan[d].state = 2
  <2>1. Head(agenda).on \in Channels
    BY <1>0, AgendaBefore, CallIs, ChannelsApart
  <2> QED
    BY <2>1, ChannelsApart DEF Settle, ReadyInv, BootTyped
<1>5. /\ chan' \in [Channels -> [state : 0 .. 2, handlers : Seq(Handlers)]]
      /\ chan'["backbutton"].state = 0
  <2> DEFINE c == Head(agenda).on
  <2>1. c \in StickyChannels /\ c \in Channels /\ c # "backbutton"
    BY <1>0, AgendaBefore, CallIs, ChannelsApart
  <2>2. chan' = chan \/ chan' = [chan EXCEPT ![c].handlers = <<>>]
    BY DEF Settle
  <2> HIDE DEF c
  <2>3. <<>> \in Seq(Handlers)
    OBVIOUS
  <2> QED
    BY <2>1, <2>2, <2>3, ChannelsApart, ZenonT(30) DEF ReadyInv, BootTyped
<1>6. /\ Native \in StickyChannels /\ PluginsReady \in StickyChannels /\ Cordova \in StickyChannels
      /\ Dom \in StickyChannels /\ "deviceready" \in StickyChannels
      /\ ToSet(<<>>) = {}
  BY ChannelsApart DEF ToSet
<1> HIDE DEF T
<1> USE DEF ReadyInv
<1>7. BootTyped'
  BY <1>1, <1>2, <1>3, <1>4, <1>5, <1>6 DEF BootTyped
<1>8. Waiting'
  BY <1>1, <1>2, <1>3, <1>4, <1>5, <1>6 DEF Waiting, Waits
<1>9. InitJoin'
  BY <1>1, <1>2, <1>3, <1>4, <1>5, <1>6 DEF InitJoin, InitPending, Count, Has, Waits,
    IsFired, Early, Native, Cordova, PluginsReady
<1>10. ReadyJoin'
  BY <1>1, <1>2, <1>3, <1>4, <1>5, <1>6 DEF ReadyJoin, InitJoin, ReadyPending, Count, Has,
    Waits, IsFired, Cordova, Dom
<1>11. PluginsCome'
  BY <1>1, <1>2, <1>3, <1>4, <1>5, <1>6 DEF PluginsCome, Has, IsFired, Timed, Early,
    PluginsReady
<1>12. ScriptsCounted'
  BY <1>1, <1>2, <1>3, <1>4, <1>5, <1>6 DEF ScriptsCounted
<1>13. Outside'
  BY <1>1, <1>2, <1>3, <1>4, <1>5, <1>6 DEF Outside, Has, IsFired, Native, Dom
<1>14. Mapped'
  BY <1>1, <1>2, <1>3, <1>4, <1>5, <1>6 DEF Mapped, Has, IsFired, Do, Cordova
<1>15. Told'
  BY <1>1, <1>2, <1>3, <1>4, <1>5, <1>6 DEF Told, Has, IsFired, Timed
<1>16. Constructs'
  BY <1>1, <1>2, <1>3, <1>4, <1>5, <1>6 DEF Constructs, Has, IsFired, Waits
<1> QED
  BY <1>3, <1>7, <1>8, <1>9, <1>10, <1>11, <1>12, <1>13, <1>14, <1>15, <1>16

LEMMA UnsubscribeKeeps == ASSUME ReadyInv, Unsubscribe PROVE ReadyInv'
<1> DEFINE T == KindsOf(Rest)
<1>0. agenda # <<>> /\ Head(agenda).do = "unsubscribe" /\ Then(<<>>)
  BY DEF Unsubscribe, First
<1>1. UNCHANGED <<timers, scripts, scriptCounter, symbols, window, readyState, listens, heard,
                  constructor, secret, left>>
  BY DEF Unsubscribe, loaderVars, moduleVars, pageVars, setupVars
<1>2. /\ KindsNow = {"unsubscribe"} \cup T /\ ToSet(agenda) = {Head(agenda)} \cup ToSet(Rest)
      /\ T \subseteq {}
      /\ Head(agenda) # Do("assign", Head(agenda).on)
  BY <1>0, AgendaBefore, CallIs, AfterIs DEF Do
<1>3. /\ agenda' \in Seq(Calls) /\ InOrderNow'
      /\ KindsNow' = T /\ ToSet(agenda') = ToSet(Rest)
  BY <1>0, AgendaDone
<1>4. \A d \in StickyChannels : chan'[d] = chan[d]
  <2>1. Head(agenda).on = "backbutton"
    BY <1>0, AgendaBefore, CallIs
  <2> QED
    BY <2>1, ChannelsApart DEF Unsubscribe, ReadyInv, BootTyped
<1>5. /\ chan' \in [Channels -> [state : 0 .. 2, handlers : Seq(Handlers)]]
      /\ chan'["backbutton"].state = 0
  <2>1. Head(agenda).on = "backbutton"
    BY <1>0, AgendaBefore, CallIs
  <2>2. ASSUME NEW hs \in Seq(Handlers), NEW i \in DOMAIN hs PROVE RemoveAt(hs, i) \in Seq(Handlers)
    <3>1. SubSeq(hs, 1, i - 1) \in Seq(Handlers) /\ SubSeq(hs, i + 1, Len(hs)) \in Seq(Handlers)
      BY <2>2
    <3> QED
      BY <3>1 DEF RemoveAt
  <2>3. chan["backbutton"].handlers \in Seq(Handlers)
    BY ChannelsApart DEF ReadyInv, BootTyped
  <2>4. CASE chan' = chan
    BY <2>4 DEF ReadyInv, BootTyped
  <2>5. CASE \E i \in DOMAIN chan["backbutton"].handlers :
                chan' = [chan EXCEPT !["backbutton"].handlers = RemoveAt(chan["backbutton"].handlers, i)]
    BY <2>2, <2>3, <2>5, ChannelsApart, SMTT(30) DEF ReadyInv, BootTyped
  <2> QED
    BY <2>1, <2>4, <2>5 DEF Unsubscribe
<1>6. /\ Native \in StickyChannels /\ PluginsReady \in StickyChannels /\ Cordova \in StickyChannels
      /\ Dom \in StickyChannels /\ "deviceready" \in StickyChannels
  BY ChannelsApart
<1> HIDE DEF T
<1> USE DEF ReadyInv
<1>7. BootTyped'
  BY <1>1, <1>2, <1>3, <1>4, <1>5, <1>6 DEF BootTyped
<1>8. Waiting'
  BY <1>1, <1>2, <1>3, <1>4, <1>5, <1>6 DEF Waiting, Waits
<1>9. InitJoin'
  BY <1>1, <1>2, <1>3, <1>4, <1>5, <1>6 DEF InitJoin, InitPending, Count, Has, Waits,
    IsFired, Early, Native, Cordova, PluginsReady
<1>10. ReadyJoin'
  BY <1>1, <1>2, <1>3, <1>4, <1>5, <1>6 DEF ReadyJoin, InitJoin, ReadyPending, Count, Has,
    Waits, IsFired, Cordova, Dom
<1>11. PluginsCome'
  BY <1>1, <1>2, <1>3, <1>4, <1>5, <1>6 DEF PluginsCome, Has, IsFired, Timed, Early,
    PluginsReady
<1>12. ScriptsCounted'
  BY <1>1, <1>2, <1>3, <1>4, <1>5, <1>6 DEF ScriptsCounted
<1>13. Outside'
  BY <1>1, <1>2, <1>3, <1>4, <1>5, <1>6 DEF Outside, Has, IsFired, Native, Dom
<1>14. Mapped'
  BY <1>1, <1>2, <1>3, <1>4, <1>5, <1>6 DEF Mapped, Has, IsFired, Do, Cordova
<1>15. Told'
  BY <1>1, <1>2, <1>3, <1>4, <1>5, <1>6 DEF Told, Has, IsFired, Timed
<1>16. Constructs'
  BY <1>1, <1>2, <1>3, <1>4, <1>5, <1>6 DEF Constructs, Has, IsFired, Waits
<1> QED
  BY <1>3, <1>7, <1>8, <1>9, <1>10, <1>11, <1>12, <1>13, <1>14, <1>15, <1>16

LEMMA CallsOfFire ==
  ASSUME NEW hs \in Seq({"initStep", "readyStep", "show", "construct", "onReady"}),
         NEW c \in StickyChannels,
         Len(hs) = 1 \/ \A g, h \in ToSet(hs) : g \in After(h),
         \A h \in ToSet(hs) : "settle" \in After(h),
         NEW calls,
         calls = [i \in DOMAIN hs |-> Do("call", hs[i])]
                 \o IF hs = <<>> THEN <<>> ELSE <<Do("settle", c)>>
  PROVE  /\ calls \in Seq(Calls) /\ Ordered(calls)
         /\ KindsOf(calls) = IF hs = <<>> THEN {} ELSE ToSet(hs) \cup {"settle"}
<1> DEFINE a == [i \in DOMAIN hs |-> Do("call", hs[i])]
           b == IF hs = <<>> THEN <<>> ELSE <<Do("settle", c)>>
<1>0. \A i \in DOMAIN hs : hs[i] \in {"initStep", "readyStep", "show", "construct", "onReady"}
  OBVIOUS
<1>1. a \in Seq(Calls) /\ DOMAIN a = DOMAIN hs /\ \A i \in DOMAIN a : KindOf(a[i]) = hs[i]
  <2>1. \A i \in DOMAIN hs : Do("call", hs[i]) \in Calls /\ KindOf(Do("call", hs[i])) = hs[i]
    BY <1>0, NamesInCalls, KindsOfCalls, ZenonT(30)
  <2>2. DOMAIN hs = 1 .. Len(hs) /\ Len(hs) \in Nat
    OBVIOUS
  <2> QED
    BY <2>1, <2>2
<1>2. KindsOf(a) = ToSet(hs)
  BY <1>1, Zenon DEF KindsOf, ToSet
<1>3. Ordered(a)
  <2>1. CASE Len(hs) = 1
    <3>1. \A i, j \in DOMAIN a : ~(i < j)
      BY <1>1, <2>1
    <3> QED
      BY <3>1 DEF Ordered
  <2>2. CASE \A g, h \in ToSet(hs) : g \in After(h)
    BY <1>2, <2>2, OrderedAlike
  <2> QED
    BY <2>1, <2>2
<1>4. /\ b \in Seq(Calls) /\ Ordered(b)
      /\ KindsOf(b) = IF hs = <<>> THEN {} ELSE {"settle"}
  <2>1. CASE hs = <<>>
    BY <2>1, KindsOfNone
  <2>2. CASE hs # <<>>
    <3>1. Do("settle", c) \in Calls /\ KindOf(Do("settle", c)) = "settle"
      BY NamesInCalls, KindsOfCalls
    <3>2. /\ KindsOf(<<Do("settle", c)>>) = {KindOf(Do("settle", c))}
          /\ Ordered(<<Do("settle", c)>>)
      BY KindsOfOne
    <3>3. <<Do("settle", c)>> \in Seq(Calls)
      BY <3>1
    <3> QED
      BY <2>2, <3>1, <3>2, <3>3
  <2> QED
    BY <2>1, <2>2
<1> HIDE DEF a, b
<1>5. \A x \in KindsOf(a), y \in KindsOf(b) : y \in After(x)
  BY <1>2, <1>4
<1>6. calls = a \o b
  BY DEF a, b
<1>7. a \o b \in Seq(Calls) /\ KindsOf(a \o b) = KindsOf(a) \cup KindsOf(b)
  BY <1>1, <1>4, KindsOfConcat
<1>8. Ordered(a \o b)
  BY <1>1, <1>3, <1>4, <1>5, OrderedConcat
<1>9. hs = <<>> => ToSet(hs) = {}
  BY KindsOfNone
<1> QED
  BY <1>2, <1>4, <1>6, <1>7, <1>8, <1>9

(* What firing a channel makes of the agenda and of the channels. *)
LEMMA FireDoes ==
  ASSUME ReadyInv, Fire, NEW c \in StickyChannels, Head(agenda).on = c,
         Waits(c) \in Seq({"initStep", "readyStep", "show", "construct", "onReady"}),
         Len(Waits(c)) = 1 \/ \A g, h \in ToSet(Waits(c)) : g \in After(h),
         \A h \in ToSet(Waits(c)) : "settle" \in After(h),
         Waits(c) # <<>> =>
            \A x \in ToSet(Waits(c)) \cup {"settle"} : KindsOf(Rest) \subseteq After(x)
  PROVE  /\ agenda' \in Seq(Calls) /\ InOrderNow'
         /\ KindsNow' = (IF Waits(c) = <<>> THEN {} ELSE ToSet(Waits(c)) \cup {"settle"})
                        \cup KindsOf(Rest)
         /\ ToSet(Rest) \subseteq ToSet(agenda')
         /\ chan' \in [Channels -> [state : 0 .. 2, handlers : Seq(Handlers)]]
         /\ chan'["backbutton"].state = 0
         /\ \A d \in StickyChannels :
               /\ chan'[d].handlers = chan[d].handlers
               /\ chan'[d].state = IF d = c THEN 2 ELSE chan[d].state
<1> DEFINE hs == Waits(c)
           calls == [i \in DOMAIN hs |-> Do("call", hs[i])]
                    \o IF hs = <<>> THEN <<>> ELSE <<Do("settle", c)>>
<1>0. agenda # <<>> /\ Then(calls) /\ chan' = [chan EXCEPT ![c] = Fired(c)]
  BY DEF Fire, First, Waits
<1>1. /\ calls \in Seq(Calls) /\ Ordered(calls)
      /\ KindsOf(calls) = IF hs = <<>> THEN {} ELSE ToSet(hs) \cup {"settle"}
  BY CallsOfFire
<1>2. \A x \in KindsOf(calls), y \in KindsOf(Rest) : y \in After(x)
  BY <1>1
<1> HIDE DEF calls
<1>3. /\ agenda' \in Seq(Calls) /\ InOrderNow'
      /\ KindsNow' = KindsOf(calls) \cup KindsOf(Rest)
      /\ ToSet(agenda') = ToSet(calls) \cup ToSet(Rest)
  BY <1>0, <1>1, <1>2, AgendaOfStep
<1>4. /\ c \in Channels
      /\ c # "backbutton"
      /\ StickyChannels \subseteq Channels
      /\ "backbutton" \in Channels
  BY ChannelsApart
<1>5. /\ chan \in [Channels -> [state : 0 .. 2, handlers : Seq(Handlers)]]
      /\ chan["backbutton"].state = 0 /\ chan[c].state # 0
  BY DEF ReadyInv, BootTyped
<1>6. Fired(c) = [state |-> 2, handlers |-> chan[c].handlers]
  <2>1. chan[c] \in [state : 0 .. 2, handlers : Seq(Handlers)] /\ chan[c].state \in {1, 2}
    BY <1>4, <1>5
  <2> QED
    BY <2>1 DEF Fired
<1>7. chan' \in [Channels -> [state : 0 .. 2, handlers : Seq(Handlers)]]
  BY <1>0, <1>4, <1>5, <1>6
<1>8. \A d \in Channels : chan'[d] = IF d = c THEN Fired(c) ELSE chan[d]
  BY <1>0, <1>4, <1>5
<1> QED
  BY <1>1, <1>3, <1>4, <1>5, <1>6, <1>7, <1>8

LEMMA FireNativeKeeps == ASSUME ReadyInv, Fire, Head(agenda).on = Native PROVE ReadyInv'
<1> DEFINE T == KindsOf(Rest)
<1>0. agenda # <<>> /\ Head(agenda).do = "fire"
  BY DEF Fire, First
<1>1. UNCHANGED <<timers, scripts, scriptCounter, symbols, window, readyState, listens, heard,
                  constructor, secret, left>>
  BY DEF Fire, loaderVars, moduleVars, pageVars, setupVars
<1>2. /\ KindsNow = {Native} \cup T /\ ToSet(agenda) = {Head(agenda)} \cup ToSet(Rest)
      /\ T \subseteq {"waitShow", "loadPlugins", "joinInit", "build"}
      /\ Head(agenda) # Do("assign", Head(agenda).on)
  BY <1>0, AgendaBefore, CallIs, AfterIs DEF Do
<1>3. /\ agenda' \in Seq(Calls) /\ InOrderNow' /\ ToSet(Rest) \subseteq ToSet(agenda')
      /\ KindsNow' = T
      /\ chan' \in [Channels -> [state : 0 .. 2, handlers : Seq(Handlers)]]
      /\ chan'["backbutton"].state = 0
      /\ \A d \in StickyChannels :
            /\ chan'[d].handlers = chan[d].handlers
            /\ chan'[d].state = IF d = Native THEN 2 ELSE chan[d].state
  <2>1. Waits(Native) = <<>>
    BY DEF ReadyInv, Waiting
  <2>2. Native \in StickyChannels
    BY ChannelsApart
  <2>3. /\ Waits(Native) \in Seq({"initStep", "readyStep", "show", "construct", "onReady"})
        /\ Len(Waits(Native)) = 1 \/ \A g, h \in ToSet(Waits(Native)) : g \in After(h)
        /\ \A h \in ToSet(Waits(Native)) : "settle" \in After(h)
        /\ Waits(Native) # <<>> =>
              \A x \in ToSet(Waits(Native)) \cup {"settle"} : T \subseteq After(x)
    BY <2>1, KindsOfNone
  <2> QED
    BY <2>1, <2>2, <2>3, FireDoes
<1>4. /\ StickyChannels = {Native, PluginsReady, Cordova, Dom, "deviceready"}
      /\ chan'["deviceready"].handlers = chan["deviceready"].handlers
      /\ chan'[Native].handlers = chan[Native].handlers
      /\ chan'[PluginsReady].handlers = chan[PluginsReady].handlers
      /\ chan'[Cordova].handlers = chan[Cordova].handlers
      /\ chan'[Dom].handlers = chan[Dom].handlers
  BY <1>3, ChannelsApart
<1> HIDE DEF T
<1> USE DEF ReadyInv
<1>5. BootTyped'
  BY <1>1, <1>2, <1>3, <1>4 DEF BootTyped
<1>6. Waiting'
  BY <1>1, <1>2, <1>3, <1>4 DEF Waiting, Waits
<1>7. InitJoin'
  BY <1>1, <1>2, <1>3, <1>4 DEF InitJoin, InitPending, Count, Has, Waits, IsFired, Early,
     Native, Cordova, PluginsReady, PluginsCome, Dom
<1>8. ReadyJoin'
  BY <1>1, <1>2, <1>3, <1>4 DEF ReadyJoin, InitJoin, ReadyPending, Count, Has, Waits,
     IsFired, Cordova, Dom, Outside, Native, PluginsReady
<1>9. PluginsCome'
  BY <1>1, <1>2, <1>3, <1>4 DEF PluginsCome, Has, IsFired, Timed, Early, PluginsReady,
     Native, Cordova, Dom
<1>10. ScriptsCounted'
  BY <1>1, <1>2, <1>3, <1>4 DEF ScriptsCounted
<1>11. Outside'
  BY <1>1, <1>2, <1>3, <1>4 DEF Outside, Has, IsFired, Native, Dom, Cordova, PluginsReady
<1>12. Mapped'
  BY <1>1, <1>2, <1>3, <1>4 DEF Mapped, Has, IsFired, Do, Cordova, Native, PluginsReady, Dom
<1>13. Told'
  BY <1>1, <1>2, <1>3, <1>4 DEF Told, Has, IsFired, Timed, Native, Cordova, PluginsReady,
    Dom
<1>14. Constructs'
  BY <1>1, <1>2, <1>3, <1>4 DEF Constructs, Has, IsFired, Waits, Native, Cordova,
    PluginsReady, Dom
<1> QED
  BY <1>3, <1>5, <1>6, <1>7, <1>8, <1>9, <1>10, <1>11, <1>12, <1>13, <1>14

LEMMA FirePluginsReadyKeeps ==
  ASSUME ReadyInv, Fire, Head(agenda).on = PluginsReady
  PROVE  ReadyInv'
<1> DEFINE T == KindsOf(Rest)
<1>0. agenda # <<>> /\ Head(agenda).do = "fire"
  BY DEF Fire, First
<1>1. UNCHANGED <<timers, scripts, scriptCounter, symbols, window, readyState, listens, heard,
                  constructor, secret, left>>
  BY DEF Fire, loaderVars, moduleVars, pageVars, setupVars
<1>2. /\ KindsNow = {PluginsReady} \cup T /\ ToSet(agenda) = {Head(agenda)} \cup ToSet(Rest)
      /\ T \subseteq {}
      /\ Head(agenda) # Do("assign", Head(agenda).on)
  BY <1>0, AgendaBefore, CallIs, AfterIs DEF Do
<1>3. /\ agenda' \in Seq(Calls) /\ InOrderNow' /\ ToSet(Rest) \subseteq ToSet(agenda')
      /\ KindsNow' = (IF Waits(PluginsReady) = <<>> THEN {} ELSE {"initStep", "settle"}) \cup T
      /\ chan' \in [Channels -> [state : 0 .. 2, handlers : Seq(Handlers)]]
      /\ chan'["backbutton"].state = 0
      /\ \A d \in StickyChannels :
            /\ chan'[d].handlers = chan[d].handlers
            /\ chan'[d].state = IF d = PluginsReady THEN 2 ELSE chan[d].state
  <2>1. Waits(PluginsReady) \in {<<>>, <<"initStep">>}
    BY DEF ReadyInv, Waiting
  <2>2. PluginsReady \in StickyChannels
    BY ChannelsApart
  <2>3. /\ Waits(PluginsReady) \in Seq({"initStep", "readyStep", "show", "construct", "onReady"})
        /\ Len(Waits(PluginsReady)) = 1 \/ \A g, h \in ToSet(Waits(PluginsReady)) : g \in After(h)
        /\ \A h \in ToSet(Waits(PluginsReady)) : "settle" \in After(h)
        /\ Waits(PluginsReady) # <<>> =>
              \A x \in ToSet(Waits(PluginsReady)) \cup {"settle"} : T \subseteq After(x)
    <3>1. CASE Waits(PluginsReady) = <<>>
      <4>1. /\ ToSet(Waits(PluginsReady)) = {}
            /\ <<>> \in Seq({"initStep", "readyStep", "show", "construct", "onReady"})
        BY <3>1, KindsOfNone
      <4> QED
        BY <3>1, <4>1
    <3>2. CASE Waits(PluginsReady) = <<"initStep">>
      <4>1. ToSet(Waits(PluginsReady)) = {"initStep"} /\ Len(Waits(PluginsReady)) = 1
        BY <3>2 DEF ToSet
      <4>2. "settle" \in After("initStep")
        BY AfterIs
      <4>3. T \subseteq After("initStep") /\ T \subseteq After("settle")
        BY <1>2, AfterIs
      <4>4. <<"initStep">> \in Seq({"initStep", "readyStep", "show", "construct", "onReady"})
        OBVIOUS
      <4> QED
        BY <3>2, <4>1, <4>2, <4>3, <4>4
    <3> QED
      BY <2>1, <3>1, <3>2
  <2>4. Waits(PluginsReady) # <<>> => ToSet(Waits(PluginsReady)) \cup {"settle"} = {"initStep", "settle"}
    BY <2>1 DEF ToSet
  <2> QED
    BY <2>1, <2>2, <2>3, <2>4, FireDoes
<1>4. /\ StickyChannels = {Native, PluginsReady, Cordova, Dom, "deviceready"}
      /\ chan'["deviceready"].handlers = chan["deviceready"].handlers
      /\ chan'[Native].handlers = chan[Native].handlers
      /\ chan'[PluginsReady].handlers = chan[PluginsReady].handlers
      /\ chan'[Cordova].handlers = chan[Cordova].handlers
      /\ chan'[Dom].handlers = chan[Dom].handlers
  BY <1>3, ChannelsApart
<1> HIDE DEF T
<1> USE DEF ReadyInv
<1>5. BootTyped'
  BY <1>1, <1>2, <1>3, <1>4 DEF BootTyped
<1>6. Waiting'
  BY <1>1, <1>2, <1>3, <1>4 DEF Waiting, Waits
<1>7. InitJoin'
  BY <1>1, <1>2, <1>3, <1>4 DEF InitJoin, InitPending, Count, Has, Waits, IsFired, Early,
     Native, Cordova, PluginsReady, PluginsCome, Dom
<1>8. ReadyJoin'
  BY <1>1, <1>2, <1>3, <1>4 DEF ReadyJoin, InitJoin, ReadyPending, Count, Has, Waits,
     IsFired, Cordova, Dom, Outside, Native, PluginsReady
<1>9. PluginsCome'
  BY <1>1, <1>2, <1>3, <1>4 DEF PluginsCome, Has, IsFired, Timed, Early, PluginsReady,
     Native, Cordova, Dom
<1>10. ScriptsCounted'
  BY <1>1, <1>2, <1>3, <1>4 DEF ScriptsCounted
<1>11. Outside'
  BY <1>1, <1>2, <1>3, <1>4 DEF Outside, Has, IsFired, Native, Dom, Cordova, PluginsReady
<1>12. Mapped'
  BY <1>1, <1>2, <1>3, <1>4 DEF Mapped, Has, IsFired, Do, Cordova, Native, PluginsReady, Dom
<1>13. Told'
  BY <1>1, <1>2, <1>3, <1>4 DEF Told, Has, IsFired, Timed, Native, Cordova, PluginsReady,
    Dom
<1>14. Constructs'
  BY <1>1, <1>2, <1>3, <1>4 DEF Constructs, Has, IsFired, Waits, Native, Cordova,
    PluginsReady, Dom
<1> QED
  BY <1>3, <1>5, <1>6, <1>7, <1>8, <1>9, <1>10, <1>11, <1>12, <1>13, <1>14

LEMMA FireDomKeeps == ASSUME ReadyInv, Fire, Head(agenda).on = Dom PROVE ReadyInv'
<1> DEFINE T == KindsOf(Rest)
<1>0. agenda # <<>> /\ Head(agenda).do = "fire"
  BY DEF Fire, First
<1>1. UNCHANGED <<timers, scripts, scriptCounter, symbols, window, readyState, listens, heard,
                  constructor, secret, left>>
  BY DEF Fire, loaderVars, moduleVars, pageVars, setupVars
<1>2. /\ KindsNow = {Dom} \cup T /\ ToSet(agenda) = {Head(agenda)} \cup ToSet(Rest)
      /\ T \subseteq {"require", "bootstrap", "loadPlugins", "joinInit", "build"}
      /\ Head(agenda) # Do("assign", Head(agenda).on)
  BY <1>0, AgendaBefore, CallIs, AfterIs DEF Do
<1>3. /\ agenda' \in Seq(Calls) /\ InOrderNow' /\ ToSet(Rest) \subseteq ToSet(agenda')
      /\ KindsNow' = (IF Waits(Dom) = <<>> THEN {} ELSE {"readyStep", "settle"}) \cup T
      /\ chan' \in [Channels -> [state : 0 .. 2, handlers : Seq(Handlers)]]
      /\ chan'["backbutton"].state = 0
      /\ \A d \in StickyChannels :
            /\ chan'[d].handlers = chan[d].handlers
            /\ chan'[d].state = IF d = Dom THEN 2 ELSE chan[d].state
  <2>1. Waits(Dom) \in {<<>>, <<"readyStep">>}
    BY DEF ReadyInv, Waiting
  <2>2. Dom \in StickyChannels
    BY ChannelsApart
  <2>3. /\ Waits(Dom) \in Seq({"initStep", "readyStep", "show", "construct", "onReady"})
        /\ Len(Waits(Dom)) = 1 \/ \A g, h \in ToSet(Waits(Dom)) : g \in After(h)
        /\ \A h \in ToSet(Waits(Dom)) : "settle" \in After(h)
        /\ Waits(Dom) # <<>> =>
              \A x \in ToSet(Waits(Dom)) \cup {"settle"} : T \subseteq After(x)
    <3>1. CASE Waits(Dom) = <<>>
      <4>1. /\ ToSet(Waits(Dom)) = {}
            /\ <<>> \in Seq({"initStep", "readyStep", "show", "construct", "onReady"})
        BY <3>1, KindsOfNone
      <4> QED
        BY <3>1, <4>1
    <3>2. CASE Waits(Dom) = <<"readyStep">>
      <4>1. ToSet(Waits(Dom)) = {"readyStep"} /\ Len(Waits(Dom)) = 1
        BY <3>2 DEF ToSet
      <4>2. "settle" \in After("readyStep")
        BY AfterIs
      <4>3. T \subseteq After("readyStep") /\ T \subseteq After("settle")
        <5>1. T \subseteq {"require", "build"}
          BY <1>2, <3>2 DEF ReadyInv, ReadyJoin, InitJoin, PluginsCome, Has, Early
        <5> QED
          BY <5>1, AfterIs
      <4>4. <<"readyStep">> \in Seq({"initStep", "readyStep", "show", "construct", "onReady"})
        OBVIOUS
      <4> QED
        BY <3>2, <4>1, <4>2, <4>3, <4>4
    <3> QED
      BY <2>1, <3>1, <3>2
  <2>4. Waits(Dom) # <<>> => ToSet(Waits(Dom)) \cup {"settle"} = {"readyStep", "settle"}
    BY <2>1 DEF ToSet
  <2> QED
    BY <2>1, <2>2, <2>3, <2>4, FireDoes
<1>4. /\ StickyChannels = {Native, PluginsReady, Cordova, Dom, "deviceready"}
      /\ chan'["deviceready"].handlers = chan["deviceready"].handlers
      /\ chan'[Native].handlers = chan[Native].handlers
      /\ chan'[PluginsReady].handlers = chan[PluginsReady].handlers
      /\ chan'[Cordova].handlers = chan[Cordova].handlers
      /\ chan'[Dom].handlers = chan[Dom].handlers
  BY <1>3, ChannelsApart
<1> HIDE DEF T
<1> USE DEF ReadyInv
<1>5. BootTyped'
  BY <1>1, <1>2, <1>3, <1>4, SMTT(30) DEF BootTyped
<1>6. Waiting'
  BY <1>1, <1>2, <1>3, <1>4 DEF Waiting, Waits
<1>7. InitJoin'
  BY <1>1, <1>2, <1>3, <1>4 DEF InitJoin, InitPending, Count, Has, Waits, IsFired, Early,
     Native, Cordova, PluginsReady, PluginsCome, Dom
<1>8. ReadyJoin'
  BY <1>1, <1>2, <1>3, <1>4 DEF ReadyJoin, InitJoin, ReadyPending, Count, Has, Waits,
     IsFired, Cordova, Dom, Outside, Native, PluginsReady
<1>9. PluginsCome'
  BY <1>1, <1>2, <1>3, <1>4 DEF PluginsCome, Has, IsFired, Timed, Early, PluginsReady,
     Native, Cordova, Dom
<1>10. ScriptsCounted'
  BY <1>1, <1>2, <1>3, <1>4 DEF ScriptsCounted
<1>11. Outside'
  BY <1>1, <1>2, <1>3, <1>4 DEF Outside, Has, IsFired, Native, Dom, Cordova, PluginsReady
<1>12. Mapped'
  BY <1>1, <1>2, <1>3, <1>4 DEF Mapped, Has, IsFired, Do, Cordova, Native, PluginsReady, Dom
<1>13. Told'
  BY <1>1, <1>2, <1>3, <1>4 DEF Told, Has, IsFired, Timed, Native, Cordova, PluginsReady,
    Dom
<1>14. Constructs'
  BY <1>1, <1>2, <1>3, <1>4 DEF Constructs, Has, IsFired, Waits, Native, Cordova,
    PluginsReady, Dom
<1> QED
  BY <1>3, <1>5, <1>6, <1>7, <1>8, <1>9, <1>10, <1>11, <1>12, <1>13, <1>14

LEMMA FireDeviceReadyKeeps ==
  ASSUME ReadyInv, Fire, Head(agenda).on = "deviceready"
  PROVE  ReadyInv'
<1> DEFINE T == KindsOf(Rest)
<1>0. agenda # <<>> /\ Head(agenda).do = "fire"
  BY DEF Fire, First
<1>1. UNCHANGED <<timers, scripts, scriptCounter, symbols, window, readyState, listens, heard,
                  constructor, secret, left>>
  BY DEF Fire, loaderVars, moduleVars, pageVars, setupVars
<1>2. /\ KindsNow = {"deviceready"} \cup T /\ ToSet(agenda) = {Head(agenda)} \cup ToSet(Rest)
      /\ T \subseteq {}
      /\ Head(agenda) # Do("assign", Head(agenda).on)
  BY <1>0, AgendaBefore, CallIs, AfterIs DEF Do
<1>3. /\ agenda' \in Seq(Calls) /\ InOrderNow' /\ ToSet(Rest) \subseteq ToSet(agenda')
      /\ KindsNow' = (IF Waits("deviceready") = <<>> THEN {} ELSE {"onReady", "settle"}) \cup T
      /\ chan' \in [Channels -> [state : 0 .. 2, handlers : Seq(Handlers)]]
      /\ chan'["backbutton"].state = 0
      /\ \A d \in StickyChannels :
            /\ chan'[d].handlers = chan[d].handlers
            /\ chan'[d].state = IF d = "deviceready" THEN 2 ELSE chan[d].state
  <2>1. Waits("deviceready") \in {<<>>, <<"onReady">>}
    BY DEF ReadyInv, Waiting
  <2>2. "deviceready" \in StickyChannels
    BY ChannelsApart
  <2>3. /\ Waits("deviceready") \in Seq({"initStep", "readyStep", "show", "construct", "onReady"})
        /\ Len(Waits("deviceready")) = 1 \/ \A g, h \in ToSet(Waits("deviceready")) : g \in After(h)
        /\ \A h \in ToSet(Waits("deviceready")) : "settle" \in After(h)
        /\ Waits("deviceready") # <<>> =>
              \A x \in ToSet(Waits("deviceready")) \cup {"settle"} : T \subseteq After(x)
    <3>1. CASE Waits("deviceready") = <<>>
      <4>1. /\ ToSet(Waits("deviceready")) = {}
            /\ <<>> \in Seq({"initStep", "readyStep", "show", "construct", "onReady"})
        BY <3>1, KindsOfNone
      <4> QED
        BY <3>1, <4>1
    <3>2. CASE Waits("deviceready") = <<"onReady">>
      <4>1. ToSet(Waits("deviceready")) = {"onReady"} /\ Len(Waits("deviceready")) = 1
        BY <3>2 DEF ToSet
      <4>2. "settle" \in After("onReady")
        BY AfterIs
      <4>3. T \subseteq After("onReady") /\ T \subseteq After("settle")
        BY <1>2, AfterIs
      <4>4. <<"onReady">> \in Seq({"initStep", "readyStep", "show", "construct", "onReady"})
        OBVIOUS
      <4> QED
        BY <3>2, <4>1, <4>2, <4>3, <4>4
    <3> QED
      BY <2>1, <3>1, <3>2
  <2>4. Waits("deviceready") # <<>> => ToSet(Waits("deviceready")) \cup {"settle"} = {"onReady", "settle"}
    BY <2>1 DEF ToSet
  <2> QED
    BY <2>1, <2>2, <2>3, <2>4, FireDoes
<1>4. /\ StickyChannels = {Native, PluginsReady, Cordova, Dom, "deviceready"}
      /\ chan'["deviceready"].handlers = chan["deviceready"].handlers
      /\ chan'[Native].handlers = chan[Native].handlers
      /\ chan'[PluginsReady].handlers = chan[PluginsReady].handlers
      /\ chan'[Cordova].handlers = chan[Cordova].handlers
      /\ chan'[Dom].handlers = chan[Dom].handlers
  BY <1>3, ChannelsApart
<1> HIDE DEF T
<1> USE DEF ReadyInv
<1>5. BootTyped'
  BY <1>1, <1>2, <1>3, <1>4, SMTT(30) DEF BootTyped
<1>6. Waiting'
  BY <1>1, <1>2, <1>3, <1>4 DEF Waiting, Waits
<1>7. InitJoin'
  BY <1>1, <1>2, <1>3, <1>4 DEF InitJoin, InitPending, Count, Has, Waits, IsFired, Early,
     Native, Cordova, PluginsReady, PluginsCome, Dom
<1>8. ReadyJoin'
  BY <1>1, <1>2, <1>3, <1>4 DEF ReadyJoin, InitJoin, ReadyPending, Count, Has, Waits,
     IsFired, Cordova, Dom, Outside, Native, PluginsReady
<1>9. PluginsCome'
  BY <1>1, <1>2, <1>3, <1>4 DEF PluginsCome, Has, IsFired, Timed, Early, PluginsReady,
     Native, Cordova, Dom
<1>10. ScriptsCounted'
  BY <1>1, <1>2, <1>3, <1>4 DEF ScriptsCounted
<1>11. Outside'
  BY <1>1, <1>2, <1>3, <1>4 DEF Outside, Has, IsFired, Native, Dom, Cordova, PluginsReady
<1>12. Mapped'
  BY <1>1, <1>2, <1>3, <1>4 DEF Mapped, Has, IsFired, Do, Cordova, Native, PluginsReady, Dom
<1>13. Told'
  BY <1>1, <1>2, <1>3, <1>4 DEF Told, Has, IsFired, Timed, Native, Cordova, PluginsReady,
    Dom
<1>14. Constructs'
  BY <1>1, <1>2, <1>3, <1>4 DEF Constructs, Has, IsFired, Waits, Native, Cordova,
    PluginsReady, Dom
<1> QED
  BY <1>3, <1>5, <1>6, <1>7, <1>8, <1>9, <1>10, <1>11, <1>12, <1>13, <1>14

LEMMA FireCordovaKeeps == ASSUME ReadyInv, Fire, Head(agenda).on = Cordova PROVE ReadyInv'
<1> DEFINE T == KindsOf(Rest)
<1>0. agenda # <<>> /\ Head(agenda).do = "fire"
  BY DEF Fire, First
<1>1. UNCHANGED <<timers, scripts, scriptCounter, symbols, window, readyState, listens, heard,
                  constructor, secret, left>>
  BY DEF Fire, loaderVars, moduleVars, pageVars, setupVars
<1>2. /\ KindsNow = {Cordova} \cup T /\ ToSet(agenda) = {Head(agenda)} \cup ToSet(Rest)
      /\ T \subseteq {"joinReady", "build", "settle"}
      /\ Head(agenda) # Do("assign", Head(agenda).on)
  BY <1>0, AgendaBefore, CallIs, AfterIs DEF Do
<1>3. /\ agenda' \in Seq(Calls) /\ InOrderNow' /\ ToSet(Rest) \subseteq ToSet(agenda')
      /\ KindsNow' = (IF Waits(Cordova) = <<>> THEN {} ELSE ToSet(Waits(Cordova)) \cup {"settle"}) \cup T
      /\ KindsNow' \subseteq {"show", "construct", "settle"} \cup T
      /\ "construct" \in ToSet(Waits(Cordova)) => "construct" \in KindsNow' 
      /\ chan' \in [Channels -> [state : 0 .. 2, handlers : Seq(Handlers)]]
      /\ chan'["backbutton"].state = 0
      /\ \A d \in StickyChannels :
            /\ chan'[d].handlers = chan[d].handlers
            /\ chan'[d].state = IF d = Cordova THEN 2 ELSE chan[d].state
  <2>1. ToSet(Waits(Cordova)) \subseteq {"show", "construct"}
    BY DEF ReadyInv, Waiting
  <2>2. Cordova \in StickyChannels
    BY ChannelsApart
  <2>3. /\ Waits(Cordova) \in Seq({"initStep", "readyStep", "show", "construct", "onReady"})
        /\ Len(Waits(Cordova)) = 1 \/ \A g, h \in ToSet(Waits(Cordova)) : g \in After(h)
        /\ \A h \in ToSet(Waits(Cordova)) : "settle" \in After(h)
        /\ Waits(Cordova) # <<>> =>
              \A x \in ToSet(Waits(Cordova)) \cup {"settle"} : T \subseteq After(x)
    <3>1. Waits(Cordova) \in Seq({"initStep", "readyStep", "show", "construct", "onReady"})
      <4>1. Waits(Cordova) \in Seq(Handlers)
        BY ChannelsApart DEF ReadyInv, BootTyped, Waits
      <4>2. \A i \in DOMAIN Waits(Cordova) : Waits(Cordova)[i] \in {"show", "construct"}
        BY <2>1 DEF ToSet
      <4> QED
        BY <4>1, <4>2
    <3>2. \A x \in {"show", "construct", "settle"} :
             /\ T \subseteq After(x)
             /\ x # "settle" => {"show", "construct", "settle"} \subseteq After(x)
      BY <1>2, AfterIs
    <3> QED
      BY <2>1, <3>1, <3>2
  <2> QED
    BY <2>1, <2>2, <2>3, KindsOfNone, FireDoes
<1>4. /\ StickyChannels = {Native, PluginsReady, Cordova, Dom, "deviceready"}
      /\ chan'["deviceready"].handlers = chan["deviceready"].handlers
      /\ chan'[Native].handlers = chan[Native].handlers
      /\ chan'[PluginsReady].handlers = chan[PluginsReady].handlers
      /\ chan'[Cordova].handlers = chan[Cordova].handlers
      /\ chan'[Dom].handlers = chan[Dom].handlers
  BY <1>3, ChannelsApart
<1> HIDE DEF T
<1> USE DEF ReadyInv
<1>5. BootTyped'
  BY <1>1, <1>2, <1>3, <1>4 DEF BootTyped
<1>6. Waiting'
  BY <1>1, <1>2, <1>3, <1>4 DEF Waiting, Waits
<1>7. InitJoin'
  BY <1>1, <1>2, <1>3, <1>4 DEF InitJoin, InitPending, Count, Has, Waits, IsFired, Early,
     Native, Cordova, PluginsReady, PluginsCome, Dom
<1>8. ReadyJoin'
  BY <1>1, <1>2, <1>3, <1>4, ZenonT(30) DEF ReadyJoin, InitJoin, ReadyPending, Count, Has, Waits,
     IsFired, Cordova, Dom, Outside, Native, PluginsReady
<1>9. PluginsCome'
  BY <1>1, <1>2, <1>3, <1>4 DEF PluginsCome, Has, IsFired, Timed, Early, PluginsReady,
     Native, Cordova, Dom
<1>10. ScriptsCounted'
  BY <1>1, <1>2, <1>3, <1>4 DEF ScriptsCounted
<1>11. Outside'
  BY <1>1, <1>2, <1>3, <1>4 DEF Outside, Has, IsFired, Native, Dom, Cordova, PluginsReady
<1>12. Mapped'
  <2>1. \A x \in ToSet(Rest) : KindOf(x) \in T
    BY Zenon DEF ToSet, KindsOf, T
  <2>2. \A id \in ToSet(symbols) : KindOf(Do("assign", id)) = "assign"
    <3>1. \A i \in DOMAIN symbols : symbols[i] \in Modules
      BY DEF BootTyped
    <3>2. \A id \in ToSet(symbols) : id \in Modules
      BY <3>1 DEF ToSet
    <3> QED
      BY <3>2, KindsOfCalls, ZenonT(30)
  <2>3. \A id \in ToSet(symbols) : Do("assign", id) \notin ToSet(agenda)
    <3>1. "assign" \notin T
      BY <1>2 DEF Cordova
    <3>2. Head(agenda).do = "fire" /\ \A id : Do("assign", id).do = "assign"
      BY <1>0 DEF Do
    <3>3. \A id : Do("assign", id) # Head(agenda)
      BY <3>2
    <3> QED
      BY <1>2, <2>1, <2>2, <3>1, <3>3, Zenon
  <2>4. Has({Cordova})
    BY <1>2 DEF Has
  <2>5. ToSet(symbols) \subseteq window
    BY <2>3, <2>4 DEF Mapped
  <2> QED
    BY <1>1, <2>5 DEF Mapped
<1>13. Told'
  BY <1>1, <1>2, <1>3, <1>4 DEF Told, Has, IsFired, Timed, Native, Cordova, PluginsReady,
    Dom
<1>14. Constructs'
  BY <1>1, <1>2, <1>3, <1>4 DEF Constructs, Has, IsFired, Waits, Native, Cordova,
    PluginsReady, Dom
<1> QED
  BY <1>3, <1>5, <1>6, <1>7, <1>8, <1>9, <1>10, <1>11, <1>12, <1>13, <1>14

-----------------------------------------------------------------------------
(* Channels: subscribing, by who subscribes to what. *)

(* What subscribing does to the channels, and to the agenda. *)
LEMMA SubscribeDoes ==
  ASSUME ReadyInv, Subscribe, NEW c \in Channels, NEW h \in Handlers,
         Head(agenda).on = c, Head(agenda).h = h
  PROVE  \/ chan[c].state = 2 /\ chan' = chan /\ Then(<<Do("call", h)>>)
         \/ /\ chan[c].state # 2 /\ Then(<<>>)
            /\ chan' \in [Channels -> [state : 0 .. 2, handlers : Seq(Handlers)]]
            /\ \A d \in Channels : chan'[d].state = chan[d].state /\ (d # c => chan'[d] = chan[d])
            /\ \/ h \in ToSet(chan[c].handlers) /\ chan' = chan
               \/ /\ h \notin ToSet(chan[c].handlers)
                  /\ chan'[c].handlers = Append(chan[c].handlers, h)
                  /\ ToSet(chan'[c].handlers) = ToSet(chan[c].handlers) \cup {h}
<1> DEFINE hs == chan[c].handlers
<1>1. /\ chan \in [Channels -> [state : 0 .. 2, handlers : Seq(Handlers)]]
      /\ hs \in Seq(Handlers)
  BY DEF ReadyInv, BootTyped
<1>2. CASE chan[c].state = 2
  BY <1>2 DEF Subscribe
<1>3. CASE chan[c].state # 2 /\ h \in ToSet(hs)
  BY <1>1, <1>3 DEF Subscribe
<1>4. CASE chan[c].state # 2 /\ h \notin ToSet(hs)
  <2>1. chan' = [chan EXCEPT ![c].handlers = Append(hs, h)] /\ Then(<<>>)
    BY <1>4 DEF Subscribe
  <2>2. Append(hs, h) \in Seq(Handlers) /\ ToSet(Append(hs, h)) = ToSet(hs) \cup {h}
    BY <1>1, ToSetAppend
  <2>3. chan' \in [Channels -> [state : 0 .. 2, handlers : Seq(Handlers)]]
    BY <1>1, <2>1, <2>2, ZenonT(30)
  <2>4. /\ \A d \in Channels : chan'[d].state = chan[d].state /\ (d # c => chan'[d] = chan[d])
        /\ chan'[c].handlers = Append(hs, h)
    BY <1>1, <2>1
  <2> QED
    BY <1>4, <2>1, <2>2, <2>3, <2>4
<1> QED
  BY <1>2, <1>3, <1>4

LEMMA SubscribeNative ==
  ASSUME ReadyInv, Subscribe, Head(agenda) = Sub(Native, "initStep") PROVE ReadyInv'
<1> DEFINE T == KindsOf(Rest)
<1>0. /\ agenda # <<>> /\ Head(agenda).do = "subscribe"
      /\ Head(agenda).on = Native /\ Head(agenda).h = "initStep"
  BY DEF Subscribe, First, Sub
<1>1. UNCHANGED <<timers, scripts, scriptCounter, symbols, window, readyState, listens, heard,
                  constructor, secret, left>>
  BY DEF Subscribe, loaderVars, moduleVars, pageVars, setupVars
<1>2. /\ KindsNow = {"waitNative"} \cup T /\ ToSet(agenda) = {Head(agenda)} \cup ToSet(Rest)
      /\ T \subseteq {"waitPlugins", "build"}
      /\ Head(agenda) # Do("assign", Head(agenda).on)
  <2>1. KindOf(Head(agenda)) = "waitNative"
    BY KindsOfCalls
  <2>2. Do("assign", Head(agenda).on).do = "assign"
    BY DEF Do
  <2> QED
    BY <1>0, <2>1, <2>2, AgendaBefore, AfterIs
<1>3. /\ agenda' \in Seq(Calls) /\ InOrderNow' /\ ToSet(Rest) \subseteq ToSet(agenda')
      /\ chan' \in [Channels -> [state : 0 .. 2, handlers : Seq(Handlers)]]
      /\ \A d \in Channels : chan'[d].state = chan[d].state /\ (d # Native => chan'[d] = chan[d])
      /\ \/ chan[Native].state = 2 /\ KindsNow' = {"initStep"} \cup T /\ chan' = chan
         \/ /\ chan[Native].state # 2 /\ KindsNow' = T
            /\ \/ chan[Native].handlers # <<>> /\ chan' = chan /\ "initStep" \in ToSet(chan[Native].handlers)
               \/ /\ "initStep" \notin ToSet(chan[Native].handlers)
                  /\ chan'[Native].handlers = Append(chan[Native].handlers, "initStep")
                  /\ ToSet(chan'[Native].handlers) = ToSet(chan[Native].handlers) \cup {"initStep"}
  <2>0. Native \in Channels /\ "initStep" \in Handlers
    BY ChannelsApart DEF Handlers
  <2>1. CASE chan[Native].state = 2 /\ chan' = chan /\ Then(<<Do("call", "initStep")>>)
    <3>1. Do("call", "initStep") \in Calls /\ KindOf(Do("call", "initStep")) = "initStep"
      BY NamesInCalls, KindsOfCalls
    <3>2. T \subseteq After("initStep")
      BY <1>2, AfterIs
    <3>3. /\ agenda' \in Seq(Calls) /\ InOrderNow'
          /\ KindsNow' = {"initStep"} \cup T
          /\ ToSet(agenda') = {Do("call", "initStep")} \cup ToSet(Rest)
      BY <1>0, <2>1, <3>1, <3>2, StepOne
    <3> QED
      BY <2>1, <3>3 DEF ReadyInv, BootTyped
  <2>2. CASE chan[Native].state # 2 /\ Then(<<>>)
    <3>1. /\ agenda' \in Seq(Calls) /\ InOrderNow'
          /\ KindsNow' = T /\ ToSet(agenda') = ToSet(Rest)
      BY <1>0, <2>2, AgendaDone
    <3>2. ToSet(<<>>) = {}
      BY KindsOfNone
    <3> QED
      BY <1>0, <2>0, <2>2, <3>1, <3>2, SubscribeDoes
  <2> QED
    BY <1>0, <2>0, <2>1, <2>2, SubscribeDoes
<1>4. /\ StickyChannels = {Native, PluginsReady, Cordova, Dom, "deviceready"}
      /\ StickyChannels \subseteq Channels /\ "backbutton" \in Channels
      /\ ToSet(<<>>) = {}
      /\ Append(<<>>, "initStep") = <<"initStep">>
      /\ ToSet(<<"initStep">>) = {"initStep"}
      /\ "backbutton" # Native
  BY ChannelsApart, KindsOfNone, KindsOfOne
<1> HIDE DEF T
<1> USE DEF ReadyInv
<1>5. BootTyped'
  BY <1>1, <1>2, <1>3, <1>4 DEF BootTyped, Native, Cordova, PluginsReady, Dom
<1>6. Waiting'
  BY <1>1, <1>2, <1>3, <1>4 DEF Waiting, Waits, Native, Cordova, PluginsReady, Dom,
    InitJoin, ReadyJoin, Has, IsFired
<1>7. InitJoin'
  BY <1>1, <1>2, <1>3, <1>4, SMTT(30) DEF InitJoin, InitPending, Count, Has, Waits, IsFired, Early,
     Native, Cordova, PluginsReady, Dom
<1>8. ReadyJoin'
  BY <1>1, <1>2, <1>3, <1>4 DEF ReadyJoin, InitJoin, ReadyPending, Count, Has, Waits,
     IsFired, Cordova, Dom, Native, PluginsReady
<1>9. PluginsCome'
  BY <1>1, <1>2, <1>3, <1>4 DEF PluginsCome, Has, IsFired, Timed, Early, PluginsReady,
     Native, Cordova, Dom
<1>10. ScriptsCounted'
  BY <1>1, <1>2, <1>3, <1>4 DEF ScriptsCounted
<1>11. Outside'
  BY <1>1, <1>2, <1>3, <1>4 DEF Outside, Has, IsFired, Native, Dom, Cordova, PluginsReady
<1>12. Mapped'
  BY <1>1, <1>2, <1>3, <1>4 DEF Mapped, Has, IsFired, Do, Cordova, Native, PluginsReady, Dom
<1>13. Told'
  BY <1>1, <1>2, <1>3, <1>4 DEF Told, Has, IsFired, Timed, Native, Cordova, PluginsReady,
    Dom
<1>14. Constructs'
  BY <1>1, <1>2, <1>3, <1>4 DEF Constructs, Has, IsFired, Waits, Native, Cordova,
    PluginsReady, Dom
<1> QED
  BY <1>3, <1>5, <1>6, <1>7, <1>8, <1>9, <1>10, <1>11, <1>12, <1>13, <1>14

LEMMA SubscribePlugins ==
  ASSUME ReadyInv, Subscribe, Head(agenda) = Sub(PluginsReady, "initStep") PROVE ReadyInv'
<1> DEFINE T == KindsOf(Rest)
<1>0. /\ agenda # <<>> /\ Head(agenda).do = "subscribe"
      /\ Head(agenda).on = PluginsReady /\ Head(agenda).h = "initStep"
  BY DEF Subscribe, First, Sub
<1>1. UNCHANGED <<timers, scripts, scriptCounter, symbols, window, readyState, listens, heard,
                  constructor, secret, left>>
  BY DEF Subscribe, loaderVars, moduleVars, pageVars, setupVars
<1>2. /\ KindsNow = {"waitPlugins"} \cup T /\ ToSet(agenda) = {Head(agenda)} \cup ToSet(Rest)
      /\ T \subseteq {"build"}
      /\ Head(agenda) # Do("assign", Head(agenda).on)
  <2>1. KindOf(Head(agenda)) = "waitPlugins"
    BY KindsOfCalls
  <2>2. Do("assign", Head(agenda).on).do = "assign"
    BY DEF Do
  <2> QED
    BY <1>0, <2>1, <2>2, AgendaBefore, AfterIs
<1>3. /\ agenda' \in Seq(Calls) /\ InOrderNow' /\ ToSet(Rest) \subseteq ToSet(agenda')
      /\ chan' \in [Channels -> [state : 0 .. 2, handlers : Seq(Handlers)]]
      /\ \A d \in Channels : chan'[d].state = chan[d].state /\ (d # PluginsReady => chan'[d] = chan[d])
      /\ \/ chan[PluginsReady].state = 2 /\ KindsNow' = {"initStep"} \cup T /\ chan' = chan
         \/ /\ chan[PluginsReady].state # 2 /\ KindsNow' = T
            /\ \/ chan[PluginsReady].handlers # <<>> /\ chan' = chan /\ "initStep" \in ToSet(chan[PluginsReady].handlers)
               \/ /\ "initStep" \notin ToSet(chan[PluginsReady].handlers)
                  /\ chan'[PluginsReady].handlers = Append(chan[PluginsReady].handlers, "initStep")
                  /\ ToSet(chan'[PluginsReady].handlers) = ToSet(chan[PluginsReady].handlers) \cup {"initStep"}
  <2>0. PluginsReady \in Channels /\ "initStep" \in Handlers
    BY ChannelsApart DEF Handlers
  <2>1. CASE chan[PluginsReady].state = 2 /\ chan' = chan /\ Then(<<Do("call", "initStep")>>)
    <3>1. Do("call", "initStep") \in Calls /\ KindOf(Do("call", "initStep")) = "initStep"
      BY NamesInCalls, KindsOfCalls
    <3>2. T \subseteq After("initStep")
      BY <1>2, AfterIs
    <3>3. /\ agenda' \in Seq(Calls) /\ InOrderNow'
          /\ KindsNow' = {"initStep"} \cup T
          /\ ToSet(agenda') = {Do("call", "initStep")} \cup ToSet(Rest)
      BY <1>0, <2>1, <3>1, <3>2, StepOne
    <3> QED
      BY <2>1, <3>3 DEF ReadyInv, BootTyped
  <2>2. CASE chan[PluginsReady].state # 2 /\ Then(<<>>)
    <3>1. /\ agenda' \in Seq(Calls) /\ InOrderNow'
          /\ KindsNow' = T /\ ToSet(agenda') = ToSet(Rest)
      BY <1>0, <2>2, AgendaDone
    <3>2. ToSet(<<>>) = {}
      BY KindsOfNone
    <3> QED
      BY <1>0, <2>0, <2>2, <3>1, <3>2, SubscribeDoes
  <2> QED
    BY <1>0, <2>0, <2>1, <2>2, SubscribeDoes
<1>4. /\ StickyChannels = {Native, PluginsReady, Cordova, Dom, "deviceready"}
      /\ StickyChannels \subseteq Channels /\ "backbutton" \in Channels
      /\ ToSet(<<>>) = {}
      /\ Append(<<>>, "initStep") = <<"initStep">>
      /\ ToSet(<<"initStep">>) = {"initStep"}
      /\ "backbutton" # PluginsReady
  BY ChannelsApart, KindsOfNone, KindsOfOne
<1> HIDE DEF T
<1> USE DEF ReadyInv
<1>5. BootTyped'
  BY <1>1, <1>2, <1>3, <1>4 DEF BootTyped, Native, Cordova, PluginsReady, Dom
<1>6. Waiting'
  BY <1>1, <1>2, <1>3, <1>4 DEF Waiting, Waits, Native, Cordova, PluginsReady, Dom
<1>7. InitJoin'
  BY <1>1, <1>2, <1>3, <1>4, SMTT(30) DEF InitJoin, InitPending, Count, Has, Waits, IsFired, Early,
     Native, Cordova, PluginsReady, Dom
<1>8. ReadyJoin'
  BY <1>1, <1>2, <1>3, <1>4 DEF ReadyJoin, InitJoin, ReadyPending, Count, Has, Waits,
     IsFired, Cordova, Dom, Native, PluginsReady
<1>9. PluginsCome'
  BY <1>1, <1>2, <1>3, <1>4 DEF PluginsCome, Has, IsFired, Timed, Early, PluginsReady,
     Native, Cordova, Dom
<1>10. ScriptsCounted'
  BY <1>1, <1>2, <1>3, <1>4 DEF ScriptsCounted
<1>11. Outside'
  BY <1>1, <1>2, <1>3, <1>4 DEF Outside, Has, IsFired, Native, Dom, Cordova, PluginsReady
<1>12. Mapped'
  BY <1>1, <1>2, <1>3, <1>4 DEF Mapped, Has, IsFired, Do, Cordova, Native, PluginsReady, Dom
<1>13. Told'
  BY <1>1, <1>2, <1>3, <1>4 DEF Told, Has, IsFired, Timed, Native, Cordova, PluginsReady,
    Dom
<1>14. Constructs'
  BY <1>1, <1>2, <1>3, <1>4 DEF Constructs, Has, IsFired, Waits, Native, Cordova,
    PluginsReady, Dom
<1> QED
  BY <1>3, <1>5, <1>6, <1>7, <1>8, <1>9, <1>10, <1>11, <1>12, <1>13, <1>14

LEMMA SubscribeCordovaStep ==
  ASSUME ReadyInv, Subscribe, Head(agenda) = Sub(Cordova, "readyStep") PROVE ReadyInv'
<1> DEFINE T == KindsOf(Rest)
<1>0. /\ agenda # <<>> /\ Head(agenda).do = "subscribe"
      /\ Head(agenda).on = Cordova /\ Head(agenda).h = "readyStep"
  BY DEF Subscribe, First, Sub
<1>1. UNCHANGED <<timers, scripts, scriptCounter, symbols, window, readyState, listens, heard,
                  constructor, secret, left>>
  BY DEF Subscribe, loaderVars, moduleVars, pageVars, setupVars
<1>2. /\ KindsNow = {"waitCordova"} \cup T /\ ToSet(agenda) = {Head(agenda)} \cup ToSet(Rest)
      /\ T \subseteq {"waitDom", "build", "settle"}
      /\ Head(agenda) # Do("assign", Head(agenda).on)
  <2>1. KindOf(Head(agenda)) = "waitCordova"
    BY KindsOfCalls
  <2>2. Do("assign", Head(agenda).on).do = "assign"
    BY DEF Do
  <2> QED
    BY <1>0, <2>1, <2>2, AgendaBefore, AfterIs
<1>3. /\ agenda' \in Seq(Calls) /\ InOrderNow' /\ ToSet(Rest) \subseteq ToSet(agenda')
      /\ chan' \in [Channels -> [state : 0 .. 2, handlers : Seq(Handlers)]]
      /\ \A d \in Channels : chan'[d].state = chan[d].state /\ (d # Cordova => chan'[d] = chan[d])
      /\ \/ chan[Cordova].state = 2 /\ KindsNow' = {"readyStep"} \cup T /\ chan' = chan
         \/ /\ chan[Cordova].state # 2 /\ KindsNow' = T
            /\ \/ chan[Cordova].handlers # <<>> /\ chan' = chan /\ "readyStep" \in ToSet(chan[Cordova].handlers)
               \/ /\ "readyStep" \notin ToSet(chan[Cordova].handlers)
                  /\ chan'[Cordova].handlers = Append(chan[Cordova].handlers, "readyStep")
                  /\ ToSet(chan'[Cordova].handlers) = ToSet(chan[Cordova].handlers) \cup {"readyStep"}
  <2>0. Cordova \in Channels /\ "readyStep" \in Handlers
    BY ChannelsApart DEF Handlers
  <2>1. CASE chan[Cordova].state = 2 /\ chan' = chan /\ Then(<<Do("call", "readyStep")>>)
    <3>1. Do("call", "readyStep") \in Calls /\ KindOf(Do("call", "readyStep")) = "readyStep"
      BY NamesInCalls, KindsOfCalls
    <3>2. T \subseteq After("readyStep")
      BY <1>2, AfterIs
    <3>3. /\ agenda' \in Seq(Calls) /\ InOrderNow'
          /\ KindsNow' = {"readyStep"} \cup T
          /\ ToSet(agenda') = {Do("call", "readyStep")} \cup ToSet(Rest)
      BY <1>0, <2>1, <3>1, <3>2, StepOne
    <3> QED
      BY <2>1, <3>3 DEF ReadyInv, BootTyped
  <2>2. CASE chan[Cordova].state # 2 /\ Then(<<>>)
    <3>1. /\ agenda' \in Seq(Calls) /\ InOrderNow'
          /\ KindsNow' = T /\ ToSet(agenda') = ToSet(Rest)
      BY <1>0, <2>2, AgendaDone
    <3>2. ToSet(<<>>) = {}
      BY KindsOfNone
    <3> QED
      BY <1>0, <2>0, <2>2, <3>1, <3>2, SubscribeDoes
  <2> QED
    BY <1>0, <2>0, <2>1, <2>2, SubscribeDoes
<1>4. /\ StickyChannels = {Native, PluginsReady, Cordova, Dom, "deviceready"}
      /\ StickyChannels \subseteq Channels /\ "backbutton" \in Channels
      /\ ToSet(<<>>) = {}
      /\ Append(<<>>, "readyStep") = <<"readyStep">>
      /\ ToSet(<<"readyStep">>) = {"readyStep"}
      /\ "backbutton" # Cordova
  BY ChannelsApart, KindsOfNone, KindsOfOne
<1> HIDE DEF T
<1> USE DEF ReadyInv
<1>5. BootTyped'
  BY <1>1, <1>2, <1>3, <1>4 DEF BootTyped, Native, Cordova, PluginsReady, Dom
<1>6. Waiting'
  BY <1>1, <1>2, <1>3, <1>4 DEF Waiting, Waits, Native, Cordova, PluginsReady, Dom,
    InitJoin, ReadyJoin, Has, IsFired
<1>7. InitJoin'
  BY <1>1, <1>2, <1>3, <1>4 DEF InitJoin, InitPending, Count, Has, Waits, IsFired, Early,
     Native, Cordova, PluginsReady, Dom
<1>8. ReadyJoin'
  BY <1>1, <1>2, <1>3, <1>4 DEF ReadyJoin, InitJoin, ReadyPending, Count, Has, Waits,
     IsFired, Cordova, Dom, Native, PluginsReady
<1>9. PluginsCome'
  BY <1>1, <1>2, <1>3, <1>4 DEF PluginsCome, Has, IsFired, Timed, Early, PluginsReady,
     Native, Cordova, Dom
<1>10. ScriptsCounted'
  BY <1>1, <1>2, <1>3, <1>4 DEF ScriptsCounted
<1>11. Outside'
  BY <1>1, <1>2, <1>3, <1>4 DEF Outside, Has, IsFired, Native, Dom, Cordova, PluginsReady
<1>12. Mapped'
  BY <1>1, <1>2, <1>3, <1>4 DEF Mapped, Has, IsFired, Do, Cordova, Native, PluginsReady, Dom
<1>13. Told'
  BY <1>1, <1>2, <1>3, <1>4 DEF Told, Has, IsFired, Timed, Native, Cordova, PluginsReady,
    Dom
<1>14. Constructs'
  BY <1>1, <1>2, <1>3, <1>4 DEF Constructs, Has, IsFired, Waits, Native, Cordova,
    PluginsReady, Dom
<1> QED
  BY <1>3, <1>5, <1>6, <1>7, <1>8, <1>9, <1>10, <1>11, <1>12, <1>13, <1>14

LEMMA SubscribeDom ==
  ASSUME ReadyInv, Subscribe, Head(agenda) = Sub(Dom, "readyStep") PROVE ReadyInv'
<1> DEFINE T == KindsOf(Rest)
<1>0. /\ agenda # <<>> /\ Head(agenda).do = "subscribe"
      /\ Head(agenda).on = Dom /\ Head(agenda).h = "readyStep"
  BY DEF Subscribe, First, Sub
<1>1. UNCHANGED <<timers, scripts, scriptCounter, symbols, window, readyState, listens, heard,
                  constructor, secret, left>>
  BY DEF Subscribe, loaderVars, moduleVars, pageVars, setupVars
<1>2. /\ KindsNow = {"waitDom"} \cup T /\ ToSet(agenda) = {Head(agenda)} \cup ToSet(Rest)
      /\ T \subseteq {"build", "settle"}
      /\ Head(agenda) # Do("assign", Head(agenda).on)
  <2>1. KindOf(Head(agenda)) = "waitDom"
    BY KindsOfCalls
  <2>2. Do("assign", Head(agenda).on).do = "assign"
    BY DEF Do
  <2> QED
    BY <1>0, <2>1, <2>2, AgendaBefore, AfterIs
<1>3. /\ agenda' \in Seq(Calls) /\ InOrderNow' /\ ToSet(Rest) \subseteq ToSet(agenda')
      /\ chan' \in [Channels -> [state : 0 .. 2, handlers : Seq(Handlers)]]
      /\ \A d \in Channels : chan'[d].state = chan[d].state /\ (d # Dom => chan'[d] = chan[d])
      /\ \/ chan[Dom].state = 2 /\ KindsNow' = {"readyStep"} \cup T /\ chan' = chan
         \/ /\ chan[Dom].state # 2 /\ KindsNow' = T
            /\ \/ chan[Dom].handlers # <<>> /\ chan' = chan /\ "readyStep" \in ToSet(chan[Dom].handlers)
               \/ /\ "readyStep" \notin ToSet(chan[Dom].handlers)
                  /\ chan'[Dom].handlers = Append(chan[Dom].handlers, "readyStep")
                  /\ ToSet(chan'[Dom].handlers) = ToSet(chan[Dom].handlers) \cup {"readyStep"}
  <2>0. Dom \in Channels /\ "readyStep" \in Handlers
    BY ChannelsApart DEF Handlers
  <2>1. CASE chan[Dom].state = 2 /\ chan' = chan /\ Then(<<Do("call", "readyStep")>>)
    <3>1. Do("call", "readyStep") \in Calls /\ KindOf(Do("call", "readyStep")) = "readyStep"
      BY NamesInCalls, KindsOfCalls
    <3>2. T \subseteq After("readyStep")
      BY <1>2, AfterIs
    <3>3. /\ agenda' \in Seq(Calls) /\ InOrderNow'
          /\ KindsNow' = {"readyStep"} \cup T
          /\ ToSet(agenda') = {Do("call", "readyStep")} \cup ToSet(Rest)
      BY <1>0, <2>1, <3>1, <3>2, StepOne
    <3> QED
      BY <2>1, <3>3 DEF ReadyInv, BootTyped
  <2>2. CASE chan[Dom].state # 2 /\ Then(<<>>)
    <3>1. /\ agenda' \in Seq(Calls) /\ InOrderNow'
          /\ KindsNow' = T /\ ToSet(agenda') = ToSet(Rest)
      BY <1>0, <2>2, AgendaDone
    <3>2. ToSet(<<>>) = {}
      BY KindsOfNone
    <3> QED
      BY <1>0, <2>0, <2>2, <3>1, <3>2, SubscribeDoes
  <2> QED
    BY <1>0, <2>0, <2>1, <2>2, SubscribeDoes
<1>4. /\ StickyChannels = {Native, PluginsReady, Cordova, Dom, "deviceready"}
      /\ StickyChannels \subseteq Channels /\ "backbutton" \in Channels
      /\ ToSet(<<>>) = {}
      /\ Append(<<>>, "readyStep") = <<"readyStep">>
      /\ ToSet(<<"readyStep">>) = {"readyStep"}
      /\ "backbutton" # Dom
  BY ChannelsApart, KindsOfNone, KindsOfOne
<1> HIDE DEF T
<1> USE DEF ReadyInv
<1>5. BootTyped'
  BY <1>1, <1>2, <1>3, <1>4 DEF BootTyped, Native, Cordova, PluginsReady, Dom
<1>6. Waiting'
  BY <1>1, <1>2, <1>3, <1>4 DEF Waiting, Waits, Native, Cordova, PluginsReady, Dom
<1>7. InitJoin'
  BY <1>1, <1>2, <1>3, <1>4 DEF InitJoin, InitPending, Count, Has, Waits, IsFired, Early,
     Native, Cordova, PluginsReady, Dom
<1>8. ReadyJoin'
  BY <1>1, <1>2, <1>3, <1>4, SMTT(30) DEF ReadyJoin, InitJoin, ReadyPending, Count, Has, Waits,
     IsFired, Cordova, Dom, Native, PluginsReady
<1>9. PluginsCome'
  BY <1>1, <1>2, <1>3, <1>4 DEF PluginsCome, Has, IsFired, Timed, Early, PluginsReady,
     Native, Cordova, Dom
<1>10. ScriptsCounted'
  BY <1>1, <1>2, <1>3, <1>4 DEF ScriptsCounted
<1>11. Outside'
  BY <1>1, <1>2, <1>3, <1>4 DEF Outside, Has, IsFired, Native, Dom, Cordova, PluginsReady
<1>12. Mapped'
  BY <1>1, <1>2, <1>3, <1>4 DEF Mapped, Has, IsFired, Do, Cordova, Native, PluginsReady, Dom
<1>13. Told'
  BY <1>1, <1>2, <1>3, <1>4 DEF Told, Has, IsFired, Timed, Native, Cordova, PluginsReady,
    Dom
<1>14. Constructs'
  BY <1>1, <1>2, <1>3, <1>4 DEF Constructs, Has, IsFired, Waits, Native, Cordova,
    PluginsReady, Dom
<1> QED
  BY <1>3, <1>5, <1>6, <1>7, <1>8, <1>9, <1>10, <1>11, <1>12, <1>13, <1>14

LEMMA SubscribeShow ==
  ASSUME ReadyInv, Subscribe, Head(agenda) = Sub(Cordova, "show") PROVE ReadyInv'
<1> DEFINE T == KindsOf(Rest)
<1>0. /\ agenda # <<>> /\ Head(agenda).do = "subscribe"
      /\ Head(agenda).on = Cordova /\ Head(agenda).h = "show"
  BY DEF Subscribe, First, Sub
<1>1. UNCHANGED <<timers, scripts, scriptCounter, symbols, window, readyState, listens, heard,
                  constructor, secret, left>>
  BY DEF Subscribe, loaderVars, moduleVars, pageVars, setupVars
<1>2. /\ KindsNow = {"waitShow"} \cup T /\ ToSet(agenda) = {Head(agenda)} \cup ToSet(Rest)
      /\ T \subseteq {"loadPlugins", "joinInit", "build"}
      /\ Head(agenda) # Do("assign", Head(agenda).on)
  <2>1. KindOf(Head(agenda)) = "waitShow"
    BY KindsOfCalls
  <2>2. Do("assign", Head(agenda).on).do = "assign"
    BY DEF Do
  <2> QED
    BY <1>0, <2>1, <2>2, AgendaBefore, AfterIs
<1>3. /\ agenda' \in Seq(Calls) /\ InOrderNow' /\ ToSet(Rest) \subseteq ToSet(agenda')
      /\ chan' \in [Channels -> [state : 0 .. 2, handlers : Seq(Handlers)]]
      /\ \A d \in Channels : chan'[d].state = chan[d].state /\ (d # Cordova => chan'[d] = chan[d])
      /\ \/ chan[Cordova].state = 2 /\ KindsNow' = {"show"} \cup T /\ chan' = chan
         \/ /\ chan[Cordova].state # 2 /\ KindsNow' = T
            /\ \/ chan[Cordova].handlers # <<>> /\ chan' = chan /\ "show" \in ToSet(chan[Cordova].handlers)
               \/ /\ "show" \notin ToSet(chan[Cordova].handlers)
                  /\ chan'[Cordova].handlers = Append(chan[Cordova].handlers, "show")
                  /\ ToSet(chan'[Cordova].handlers) = ToSet(chan[Cordova].handlers) \cup {"show"}
  <2>0. Cordova \in Channels /\ "show" \in Handlers
    BY ChannelsApart DEF Handlers
  <2>1. CASE chan[Cordova].state = 2 /\ chan' = chan /\ Then(<<Do("call", "show")>>)
    <3>1. Do("call", "show") \in Calls /\ KindOf(Do("call", "show")) = "show"
      BY NamesInCalls, KindsOfCalls
    <3>2. T \subseteq After("show")
      BY <1>2, <2>1 DEF ReadyInv, InitJoin, PluginsCome, Has, Early, IsFired
    <3>3. /\ agenda' \in Seq(Calls) /\ InOrderNow'
          /\ KindsNow' = {"show"} \cup T
          /\ ToSet(agenda') = {Do("call", "show")} \cup ToSet(Rest)
      BY <1>0, <2>1, <3>1, <3>2, StepOne
    <3> QED
      BY <2>1, <3>3 DEF ReadyInv, BootTyped
  <2>2. CASE chan[Cordova].state # 2 /\ Then(<<>>)
    <3>1. /\ agenda' \in Seq(Calls) /\ InOrderNow'
          /\ KindsNow' = T /\ ToSet(agenda') = ToSet(Rest)
      BY <1>0, <2>2, AgendaDone
    <3>2. ToSet(<<>>) = {}
      BY KindsOfNone
    <3> QED
      BY <1>0, <2>0, <2>2, <3>1, <3>2, SubscribeDoes
  <2> QED
    BY <1>0, <2>0, <2>1, <2>2, SubscribeDoes
<1>4. /\ StickyChannels = {Native, PluginsReady, Cordova, Dom, "deviceready"}
      /\ StickyChannels \subseteq Channels /\ "backbutton" \in Channels
      /\ ToSet(<<>>) = {} /\ Append(<<>>, "show") = <<"show">> /\ ToSet(<<"show">>) = {"show"}
      /\ "backbutton" # Cordova
  BY ChannelsApart, KindsOfNone, KindsOfOne
<1> HIDE DEF T
<1> USE DEF ReadyInv
<1>5. BootTyped'
  BY <1>1, <1>2, <1>3, <1>4 DEF BootTyped, Native, Cordova, PluginsReady, Dom
<1>6. Waiting'
  BY <1>1, <1>2, <1>3, <1>4 DEF Waiting, Waits, Native, Cordova, PluginsReady, Dom
<1>7. InitJoin'
  BY <1>1, <1>2, <1>3, <1>4 DEF InitJoin, InitPending, Count, Has, Waits, IsFired, Early,
     Native, Cordova, PluginsReady, Dom
<1>8. ReadyJoin'
  BY <1>1, <1>2, <1>3, <1>4 DEF ReadyJoin, InitJoin, ReadyPending, Count, Has, Waits,
     IsFired, Cordova, Dom, Native, PluginsReady
<1>9. PluginsCome'
  BY <1>1, <1>2, <1>3, <1>4 DEF PluginsCome, Has, IsFired, Timed, Early, PluginsReady,
     Native, Cordova, Dom
<1>10. ScriptsCounted'
  BY <1>1, <1>2, <1>3, <1>4 DEF ScriptsCounted
<1>11. Outside'
  BY <1>1, <1>2, <1>3, <1>4 DEF Outside, Has, IsFired, Native, Dom, Cordova, PluginsReady
<1>12. Mapped'
  BY <1>1, <1>2, <1>3, <1>4 DEF Mapped, Has, IsFired, Do, Cordova, Native, PluginsReady, Dom
<1>13. Told'
  BY <1>1, <1>2, <1>3, <1>4 DEF Told, Has, IsFired, Timed, Native, Cordova, PluginsReady,
    Dom
<1>14. Constructs'
  BY <1>1, <1>2, <1>3, <1>4 DEF Constructs, Has, IsFired, Waits, Native, Cordova,
    PluginsReady, Dom
<1> QED
  BY <1>3, <1>5, <1>6, <1>7, <1>8, <1>9, <1>10, <1>11, <1>12, <1>13, <1>14

LEMMA SubscribeConstruct ==
  ASSUME ReadyInv, Subscribe, Head(agenda) = Sub(Cordova, "construct") PROVE ReadyInv'
<1> DEFINE T == KindsOf(Rest)
<1>0. /\ agenda # <<>> /\ Head(agenda).do = "subscribe"
      /\ Head(agenda).on = Cordova /\ Head(agenda).h = "construct"
  BY DEF Subscribe, First, Sub
<1>1. UNCHANGED <<timers, scripts, scriptCounter, symbols, window, readyState, listens, heard,
                  constructor, secret, left>>
  BY DEF Subscribe, loaderVars, moduleVars, pageVars, setupVars
<1>2. /\ KindsNow = {"waitConstruct"} \cup T /\ ToSet(agenda) = {Head(agenda)} \cup ToSet(Rest)
      /\ T \subseteq {}
      /\ Head(agenda) # Do("assign", Head(agenda).on)
  <2>1. KindOf(Head(agenda)) = "waitConstruct"
    BY KindsOfCalls
  <2>2. Do("assign", Head(agenda).on).do = "assign"
    BY DEF Do
  <2> QED
    BY <1>0, <2>1, <2>2, AgendaBefore, AfterIs
<1>3. /\ agenda' \in Seq(Calls) /\ InOrderNow' /\ ToSet(Rest) \subseteq ToSet(agenda')
      /\ chan' \in [Channels -> [state : 0 .. 2, handlers : Seq(Handlers)]]
      /\ \A d \in Channels : chan'[d].state = chan[d].state /\ (d # Cordova => chan'[d] = chan[d])
      /\ \/ chan[Cordova].state = 2 /\ KindsNow' = {"construct"} \cup T /\ chan' = chan
         \/ /\ chan[Cordova].state # 2 /\ KindsNow' = T
            /\ \/ chan[Cordova].handlers # <<>> /\ chan' = chan /\ "construct" \in ToSet(chan[Cordova].handlers)
               \/ /\ "construct" \notin ToSet(chan[Cordova].handlers)
                  /\ chan'[Cordova].handlers = Append(chan[Cordova].handlers, "construct")
                  /\ ToSet(chan'[Cordova].handlers) = ToSet(chan[Cordova].handlers) \cup {"construct"}
  <2>0. Cordova \in Channels /\ "construct" \in Handlers
    BY ChannelsApart DEF Handlers
  <2>1. CASE chan[Cordova].state = 2 /\ chan' = chan /\ Then(<<Do("call", "construct")>>)
    <3>1. Do("call", "construct") \in Calls /\ KindOf(Do("call", "construct")) = "construct"
      BY NamesInCalls, KindsOfCalls
    <3>2. T \subseteq After("construct")
      BY <1>2, AfterIs
    <3>3. /\ agenda' \in Seq(Calls) /\ InOrderNow'
          /\ KindsNow' = {"construct"} \cup T
          /\ ToSet(agenda') = {Do("call", "construct")} \cup ToSet(Rest)
      BY <1>0, <2>1, <3>1, <3>2, StepOne
    <3> QED
      BY <2>1, <3>3 DEF ReadyInv, BootTyped
  <2>2. CASE chan[Cordova].state # 2 /\ Then(<<>>)
    <3>1. /\ agenda' \in Seq(Calls) /\ InOrderNow'
          /\ KindsNow' = T /\ ToSet(agenda') = ToSet(Rest)
      BY <1>0, <2>2, AgendaDone
    <3>2. ToSet(<<>>) = {}
      BY KindsOfNone
    <3> QED
      BY <1>0, <2>0, <2>2, <3>1, <3>2, SubscribeDoes
  <2> QED
    BY <1>0, <2>0, <2>1, <2>2, SubscribeDoes
<1>4. /\ StickyChannels = {Native, PluginsReady, Cordova, Dom, "deviceready"}
      /\ StickyChannels \subseteq Channels /\ "backbutton" \in Channels
      /\ ToSet(<<>>) = {}
      /\ Append(<<>>, "construct") = <<"construct">>
      /\ ToSet(<<"construct">>) = {"construct"}
      /\ "backbutton" # Cordova
  BY ChannelsApart, KindsOfNone, KindsOfOne
<1> HIDE DEF T
<1> USE DEF ReadyInv
<1>5. BootTyped'
  BY <1>1, <1>2, <1>3, <1>4 DEF BootTyped, Native, Cordova, PluginsReady, Dom
<1>6. Waiting'
  BY <1>1, <1>2, <1>3, <1>4 DEF Waiting, Waits, Native, Cordova, PluginsReady, Dom
<1>7. InitJoin'
  BY <1>1, <1>2, <1>3, <1>4 DEF InitJoin, InitPending, Count, Has, Waits, IsFired, Early,
     Native, Cordova, PluginsReady, Dom
<1>8. ReadyJoin'
  BY <1>1, <1>2, <1>3, <1>4 DEF ReadyJoin, InitJoin, ReadyPending, Count, Has, Waits,
     IsFired, Cordova, Dom, Native, PluginsReady
<1>9. PluginsCome'
  BY <1>1, <1>2, <1>3, <1>4 DEF PluginsCome, Has, IsFired, Timed, Early, PluginsReady,
     Native, Cordova, Dom
<1>10. ScriptsCounted'
  BY <1>1, <1>2, <1>3, <1>4 DEF ScriptsCounted
<1>11. Outside'
  BY <1>1, <1>2, <1>3, <1>4 DEF Outside, Has, IsFired, Native, Dom, Cordova, PluginsReady
<1>12. Mapped'
  BY <1>1, <1>2, <1>3, <1>4 DEF Mapped, Has, IsFired, Do, Cordova, Native, PluginsReady, Dom
<1>13. Told'
  BY <1>1, <1>2, <1>3, <1>4 DEF Told, Has, IsFired, Timed, Native, Cordova, PluginsReady,
    Dom
<1>14. Constructs'
  BY <1>1, <1>2, <1>3, <1>4 DEF Constructs, Has, IsFired, Waits, Native, Cordova,
    PluginsReady, Dom
<1> QED
  BY <1>3, <1>5, <1>6, <1>7, <1>8, <1>9, <1>10, <1>11, <1>12, <1>13, <1>14

LEMMA SubscribeReady ==
  ASSUME ReadyInv, Subscribe, Head(agenda) = Sub("deviceready", "onReady") PROVE ReadyInv'
<1> DEFINE T == KindsOf(Rest)
<1>0. /\ agenda # <<>> /\ Head(agenda).do = "subscribe"
      /\ Head(agenda).on = "deviceready" /\ Head(agenda).h = "onReady"
  BY DEF Subscribe, First, Sub
<1>1. UNCHANGED <<timers, scripts, scriptCounter, symbols, window, readyState, listens, heard,
                  constructor, secret, left>>
  BY DEF Subscribe, loaderVars, moduleVars, pageVars, setupVars
<1>2. /\ KindsNow = {"listen"} \cup T /\ ToSet(agenda) = {Head(agenda)} \cup ToSet(Rest)
      /\ T \subseteq {}
      /\ Head(agenda) # Do("assign", Head(agenda).on)
  <2>1. KindOf(Head(agenda)) = "listen"
    BY KindsOfCalls
  <2>2. Do("assign", Head(agenda).on).do = "assign"
    BY DEF Do
  <2> QED
    BY <1>0, <2>1, <2>2, AgendaBefore, AfterIs
<1>3. /\ agenda' \in Seq(Calls) /\ InOrderNow' /\ ToSet(Rest) \subseteq ToSet(agenda')
      /\ chan' \in [Channels -> [state : 0 .. 2, handlers : Seq(Handlers)]]
      /\ \A d \in Channels : chan'[d].state = chan[d].state /\ (d # "deviceready" => chan'[d] = chan[d])
      /\ \/ chan["deviceready"].state = 2 /\ KindsNow' = {"onReady"} \cup T /\ chan' = chan
         \/ /\ chan["deviceready"].state # 2 /\ KindsNow' = T
            /\ \/ chan["deviceready"].handlers # <<>> /\ chan' = chan /\ "onReady" \in ToSet(chan["deviceready"].handlers)
               \/ /\ "onReady" \notin ToSet(chan["deviceready"].handlers)
                  /\ chan'["deviceready"].handlers = Append(chan["deviceready"].handlers, "onReady")
                  /\ ToSet(chan'["deviceready"].handlers) = ToSet(chan["deviceready"].handlers) \cup {"onReady"}
  <2>0. "deviceready" \in Channels /\ "onReady" \in Handlers
    BY ChannelsApart DEF Handlers
  <2>1. CASE chan["deviceready"].state = 2 /\ chan' = chan /\ Then(<<Do("call", "onReady")>>)
    <3>1. Do("call", "onReady") \in Calls /\ KindOf(Do("call", "onReady")) = "onReady"
      BY NamesInCalls, KindsOfCalls
    <3>2. T \subseteq After("onReady")
      BY <1>2, AfterIs
    <3>3. /\ agenda' \in Seq(Calls) /\ InOrderNow'
          /\ KindsNow' = {"onReady"} \cup T
          /\ ToSet(agenda') = {Do("call", "onReady")} \cup ToSet(Rest)
      BY <1>0, <2>1, <3>1, <3>2, StepOne
    <3> QED
      BY <2>1, <3>3 DEF ReadyInv, BootTyped
  <2>2. CASE chan["deviceready"].state # 2 /\ Then(<<>>)
    <3>1. /\ agenda' \in Seq(Calls) /\ InOrderNow'
          /\ KindsNow' = T /\ ToSet(agenda') = ToSet(Rest)
      BY <1>0, <2>2, AgendaDone
    <3>2. ToSet(<<>>) = {}
      BY KindsOfNone
    <3> QED
      BY <1>0, <2>0, <2>2, <3>1, <3>2, SubscribeDoes
  <2> QED
    BY <1>0, <2>0, <2>1, <2>2, SubscribeDoes
<1>4. /\ StickyChannels = {Native, PluginsReady, Cordova, Dom, "deviceready"}
      /\ StickyChannels \subseteq Channels /\ "backbutton" \in Channels
      /\ ToSet(<<>>) = {}
      /\ Append(<<>>, "onReady") = <<"onReady">>
      /\ ToSet(<<"onReady">>) = {"onReady"}
      /\ "backbutton" # "deviceready"
  BY ChannelsApart, KindsOfNone, KindsOfOne
<1> HIDE DEF T
<1> USE DEF ReadyInv
<1>5. BootTyped'
  BY <1>1, <1>2, <1>3, <1>4 DEF BootTyped, Native, Cordova, PluginsReady, Dom
<1>6. Waiting'
  BY <1>1, <1>2, <1>3, <1>4 DEF Waiting, Waits, Native, Cordova, PluginsReady, Dom
<1>7. InitJoin'
  BY <1>1, <1>2, <1>3, <1>4 DEF InitJoin, InitPending, Count, Has, Waits, IsFired, Early,
     Native, Cordova, PluginsReady, Dom
<1>8. ReadyJoin'
  BY <1>1, <1>2, <1>3, <1>4 DEF ReadyJoin, InitJoin, ReadyPending, Count, Has, Waits,
     IsFired, Cordova, Dom, Native, PluginsReady
<1>9. PluginsCome'
  BY <1>1, <1>2, <1>3, <1>4 DEF PluginsCome, Has, IsFired, Timed, Early, PluginsReady,
     Native, Cordova, Dom
<1>10. ScriptsCounted'
  BY <1>1, <1>2, <1>3, <1>4 DEF ScriptsCounted
<1>11. Outside'
  BY <1>1, <1>2, <1>3, <1>4 DEF Outside, Has, IsFired, Native, Dom, Cordova, PluginsReady
<1>12. Mapped'
  BY <1>1, <1>2, <1>3, <1>4 DEF Mapped, Has, IsFired, Do, Cordova, Native, PluginsReady, Dom
<1>13. Told'
  BY <1>1, <1>2, <1>3, <1>4 DEF Told, Has, IsFired, Timed, Native, Cordova, PluginsReady,
    Dom
<1>14. Constructs'
  BY <1>1, <1>2, <1>3, <1>4 DEF Constructs, Has, IsFired, Waits, Native, Cordova,
    PluginsReady, Dom
<1> QED
  BY <1>3, <1>5, <1>6, <1>7, <1>8, <1>9, <1>10, <1>11, <1>12, <1>13, <1>14

-----------------------------------------------------------------------------
(* require() *)

LEMMA RequiredIsModules ==
  ASSUME NEW id \in Modules
  PROVE  RequiredBy(id) \in Seq(Modules \ {"init"})
<1>1. \A m \in CoreModules \ {"init"} : m \in Modules \ {"init"}
  BY DEF Modules
<1>2. CASE id \in CoreModules
  <2>1. Requires[id] \in Seq(CoreModules \ {"init"})
    <3>1. CoreModules = {"cordova", "channel", "platform", "utils", "urlutil", "base64",
           "nativeapi", "promptapi", "exec", "builder", "modulemapper", "pluginloader",
           "app", "init"}
      BY DEF CoreModules, Requires
    <3>2. CASE id = "cordova"
      <4>1. Requires[id] = <<"channel", "platform">>
        BY <3>2 DEF Requires
      <4> QED
        BY <3>1, <4>1
    <3>3. CASE id = "channel"
      <4>1. Requires[id] = <<"utils">>
        BY <3>3 DEF Requires
      <4> QED
        BY <3>1, <4>1
    <3>4. CASE id = "platform"
      <4>1. Requires[id] = <<>>
        BY <3>4 DEF Requires
      <4> QED
        BY <3>1, <4>1
    <3>5. CASE id = "utils"
      <4>1. Requires[id] = <<>>
        BY <3>5 DEF Requires
      <4> QED
        BY <3>1, <4>1
    <3>6. CASE id = "urlutil"
      <4>1. Requires[id] = <<>>
        BY <3>6 DEF Requires
      <4> QED
        BY <3>1, <4>1
    <3>7. CASE id = "base64"
      <4>1. Requires[id] = <<"utils">>
        BY <3>7 DEF Requires
      <4> QED
        BY <3>1, <4>1
    <3>8. CASE id = "nativeapi"
      <4>1. Requires[id] = <<"promptapi">>
        BY <3>8 DEF Requires
      <4> QED
        BY <3>1, <4>1
    <3>9. CASE id = "promptapi"
      <4>1. Requires[id] = <<>>
        BY <3>9 DEF Requires
      <4> QED
        BY <3>1, <4>1
    <3>10. CASE id = "exec"
      <4>1. Requires[id] = <<"cordova", "nativeapi", "utils", "base64", "channel">>
        BY <3>10 DEF Requires
      <4> QED
        BY <3>1, <4>1
    <3>11. CASE id = "builder"
      <4>1. Requires[id] = <<"utils">>
        BY <3>11 DEF Requires
      <4> QED
        BY <3>1, <4>1
    <3>12. CASE id = "modulemapper"
      <4>1. Requires[id] = <<"builder">>
        BY <3>12 DEF Requires
      <4> QED
        BY <3>1, <4>1
    <3>13. CASE id = "pluginloader"
      <4>1. Requires[id] = <<"modulemapper", "urlutil">>
        BY <3>13 DEF Requires
      <4> QED
        BY <3>1, <4>1
    <3>14. CASE id = "app"
      <4>1. Requires[id] = <<"exec", "cordova">>
        BY <3>14 DEF Requires
      <4> QED
        BY <3>1, <4>1
    <3>15. CASE id = "init"
      <4>1. Requires[id] = <<"channel", "cordova", "modulemapper", "platform", "pluginloader", "utils">>
        BY <3>15 DEF Requires
      <4> QED
        BY <3>1, <4>1
    <3> QED
      BY <1>2, <3>1, <3>2, <3>3, <3>4, <3>5, <3>6, <3>7, <3>8, <3>9, <3>10, <3>11, <3>12, <3>13,
         <3>14, <3>15
  <2>2. Requires[id] \in Seq(Modules \ {"init"})
    <3>1. CoreModules \ {"init"} \subseteq Modules \ {"init"}
      BY <1>1
    <3> QED
      BY <2>1, <3>1
  <2> QED
    BY <1>2, <2>2 DEF RequiredBy
<1>3. CASE id \notin CoreModules
  <2>1. "exec" \in Modules \ {"init"}
    BY DEF Modules, CoreModules, Requires
  <2> QED
    BY <1>3, <2>1 DEF RequiredBy
<1> QED
  BY <1>2, <1>3

LEMMA BodyOfInit ==
  /\ BodyOf("init") \in Seq(Calls) /\ Ordered(BodyOf("init"))
  /\ KindsOf(BodyOf("init")) = {"hook", "require", "bootstrap", "loadPlugins", "joinInit"}
<1> DEFINE b == BodyOf("init")
<1>1. b = << Do("hook", ""), Do("require", "exec"), Do("bootstrap", ""),
             Do("defer", "loadPlugins"), Do("joinInit", "") >>
  BY DEF BodyOf
<1>2. "exec" \in Modules \ {"init"}
  BY DEF Modules, CoreModules, Requires
<1>3. /\ Do("hook", "") \in Calls /\ Do("require", "exec") \in Calls /\ Do("bootstrap", "") \in Calls
      /\ Do("defer", "loadPlugins") \in Calls /\ Do("joinInit", "") \in Calls
      /\ KindOf(Do("hook", "")) = "hook" /\ KindOf(Do("require", "exec")) = "require"
      /\ KindOf(Do("bootstrap", "")) = "bootstrap"
      /\ KindOf(Do("defer", "loadPlugins")) = "loadPlugins" /\ KindOf(Do("joinInit", "")) = "joinInit"
  BY <1>2, NamesInCalls, KindsOfCalls, ZenonT(30)
<1> HIDE DEF b
<1>4. /\ b \in Seq(Calls) /\ DOMAIN b = {1, 2, 3, 4, 5}
      /\ KindOf(b[1]) = "hook" /\ KindOf(b[2]) = "require" /\ KindOf(b[3]) = "bootstrap"
      /\ KindOf(b[4]) = "loadPlugins" /\ KindOf(b[5]) = "joinInit"
  <2>1. /\ Do("hook", "") \in Calls /\ Do("require", "exec") \in Calls /\ Do("bootstrap", "") \in Calls
        /\ Do("defer", "loadPlugins") \in Calls /\ Do("joinInit", "") \in Calls
    BY <1>3
  <2>2. PICK v, w, x, y, z :
           /\ v = Do("hook", "") /\ w = Do("require", "exec") /\ x = Do("bootstrap", "")
           /\ y = Do("defer", "loadPlugins") /\ z = Do("joinInit", "")
    BY Zenon
  <2>3. b = <<v, w, x, y, z>>
    BY <1>1, <2>2, Zenon
  <2>4. v \in Calls /\ w \in Calls /\ x \in Calls /\ y \in Calls /\ z \in Calls
    BY <2>1, <2>2, Zenon
  <2>5. b \in Seq(Calls)
    BY <2>3, <2>4
  <2>6. DOMAIN b = 1 .. 5 /\ b[1] = v /\ b[2] = w /\ b[3] = x /\ b[4] = y /\ b[5] = z
    BY <2>3
  <2>7. 1 .. 5 = {1, 2, 3, 4, 5}
    OBVIOUS
  <2> QED
    BY <1>3, <2>2, <2>5, <2>6, <2>7, Zenon
<1>5. KindsOf(b) = {"hook", "require", "bootstrap", "loadPlugins", "joinInit"}
  <2>1. KindsOf(b) = {KindOf(b[1]), KindOf(b[2]), KindOf(b[3]), KindOf(b[4]), KindOf(b[5])}
    BY <1>4, Zenon DEF KindsOf
  <2> QED
    BY <1>4, <2>1
<1>6. Ordered(b)
  <2>1. /\ {"require", "bootstrap", "loadPlugins", "joinInit"} \subseteq After("hook")
        /\ {"bootstrap", "loadPlugins", "joinInit"} \subseteq After("require")
        /\ {"loadPlugins", "joinInit"} \subseteq After("bootstrap")
        /\ "joinInit" \in After("loadPlugins")
    BY AfterIs
  <2> QED
    BY <1>4, <2>1 DEF Ordered
<1> QED
  BY <1>4, <1>5, <1>6 DEF b

LEMMA AlikeCalls ==
  ASSUME NEW s \in Seq(Modules \ {"init"}),
         NEW a, a = [i \in DOMAIN s |-> Do("require", s[i])]
  PROVE  a \in Seq(Calls) /\ KindsOf(a) \subseteq {"require"} /\ Ordered(a)
<1>1. \A i \in DOMAIN s : Do("require", s[i]) \in Calls /\ KindOf(Do("require", s[i])) = "require"
  <2>1. \A i \in DOMAIN s : s[i] \in Modules \ {"init"}
    OBVIOUS
  <2> QED
    BY <2>1, NamesInCalls, KindsOfCalls, ZenonT(30)
<1>2. DOMAIN s = 1 .. Len(s) /\ Len(s) \in Nat
  OBVIOUS
<1>3. a \in Seq(Calls) /\ DOMAIN a = DOMAIN s /\ \A i \in DOMAIN a : KindOf(a[i]) = "require"
  BY <1>1, <1>2
<1>4. KindsOf(a) \subseteq {"require"}
  BY <1>3 DEF KindsOf
<1>5. \A x, y \in KindsOf(a) : y \in After(x)
  BY <1>4, AfterIs
<1> QED
  BY <1>3, <1>4, <1>5, OrderedAlike

(* What building a module asks for. *)
LEMMA ModuleCalls ==
  ASSUME NEW id \in Modules, NEW calls,
         calls = [i \in DOMAIN RequiredBy(id) |-> Do("require", RequiredBy(id)[i])]
                 \o BodyOf(id) \o <<Do("build", id)>>
  PROVE  /\ calls \in Seq(Calls) /\ Ordered(calls)
         /\ id # "init" => KindsOf(calls) \subseteq {"require", "build"}
         /\ id = "init" => /\ {"hook", "bootstrap", "loadPlugins", "joinInit"} \subseteq KindsOf(calls)
                           /\ KindsOf(calls) \subseteq {"hook", "require", "bootstrap", "loadPlugins",
                                                        "joinInit", "build"}
<1> DEFINE a == [i \in DOMAIN RequiredBy(id) |-> Do("require", RequiredBy(id)[i])]
           b == BodyOf(id)
           c == <<Do("build", id)>>
<1>1. a \in Seq(Calls) /\ KindsOf(a) \subseteq {"require"} /\ Ordered(a)
  BY RequiredIsModules, AlikeCalls
<1>2. /\ b \in Seq(Calls) /\ Ordered(b)
      /\ KindsOf(b) = IF id = "init" THEN {"hook", "require", "bootstrap", "loadPlugins", "joinInit"}
                      ELSE {}
  <2>1. CASE id = "init"
    BY <2>1, BodyOfInit
  <2>2. CASE id # "init"
    <3>1. b = <<>>
      BY <2>2 DEF BodyOf
    <3>2. <<>> \in Seq(Calls)
      OBVIOUS
    <3> QED
      BY <2>2, <3>1, <3>2, KindsOfNone
  <2> QED
    BY <2>1, <2>2
<1>3. c \in Seq(Calls) /\ Ordered(c) /\ KindsOf(c) = {"build"}
  <2>1. Do("build", id) \in Calls /\ KindOf(Do("build", id)) = "build"
    BY NamesInCalls, KindsOfCalls
  <2>2. KindsOf(c) = {KindOf(Do("build", id))} /\ Ordered(c)
    BY KindsOfOne
  <2> QED
    BY <2>1, <2>2
<1> HIDE DEF a, b, c
<1>4. a \o b \in Seq(Calls) /\ KindsOf(a \o b) = KindsOf(a) \cup KindsOf(b)
  BY <1>1, <1>2, KindsOfConcat
<1>5. Ordered(a \o b)
  <2>1. \A x \in KindsOf(a), y \in KindsOf(b) : y \in After(x)
    BY <1>1, <1>2, AfterIs
  <2> QED
    BY <1>1, <1>2, <2>1, OrderedConcat
<1>6. (a \o b) \o c \in Seq(Calls) /\ KindsOf((a \o b) \o c) = KindsOf(a \o b) \cup KindsOf(c)
  BY <1>3, <1>4, KindsOfConcat
<1>7. Ordered((a \o b) \o c)
  <2>1. "build" \in After("hook") /\ "build" \in After("require") /\ "build" \in After("bootstrap")
        /\ "build" \in After("loadPlugins") /\ "build" \in After("joinInit")
    BY AfterIs
  <2>2. \A x \in KindsOf(a \o b), y \in KindsOf(c) : y \in After(x)
    BY <1>1, <1>2, <1>3, <1>4, <2>1
  <2> QED
    BY <1>3, <1>4, <1>5, <2>2, OrderedConcat
<1>8. calls = (a \o b) \o c
  BY DEF a, b, c
<1> QED
  BY <1>1, <1>2, <1>3, <1>4, <1>6, <1>7, <1>8

LEMMA RequireKeeps == ASSUME ReadyInv, Require PROVE ReadyInv'
<1> DEFINE T == KindsOf(Rest)
<1>0. agenda # <<>> /\ Head(agenda).do = "require"
  BY DEF Require, First
<1>1. UNCHANGED <<chan, timers, scripts, scriptCounter, symbols, window, readyState, listens,
                  heard, constructor, secret, left>>
  BY DEF Require, loaderVars, moduleVars, pageVars, setupVars
<1>2. /\ ToSet(agenda) = {Head(agenda)} \cup ToSet(Rest)
      /\ \/ Head(agenda).on = "init" /\ KindsNow = {"init"} \cup T /\ T = {}
         \/ /\ Head(agenda).on # "init" /\ KindsNow = {"require"} \cup T
            /\ T \subseteq {"require", "init", "build", "hook", "bootstrap", "loadPlugins", "joinInit",
                            "assign", Cordova, "joinReady", "settle"}
      /\ Head(agenda) # Do("assign", Head(agenda).on)
  BY <1>0, AgendaBefore, CallIs, AfterIs DEF Do
<1>3. /\ agenda' \in Seq(Calls) /\ InOrderNow'
      /\ \/ KindsNow' = {}
         \/ ToSet(Rest) \subseteq ToSet(agenda') /\ T \subseteq KindsNow'
            /\ KindsNow' \subseteq {"require", "build"} \cup T
         \/ /\ "init" \in KindsNow /\ T = {} /\ ToSet(Rest) \subseteq ToSet(agenda')
            /\ {"hook", "bootstrap", "loadPlugins", "joinInit"} \subseteq KindsNow'
            /\ KindsNow' \subseteq {"hook", "require", "bootstrap", "loadPlugins", "joinInit", "build"}
  <2> DEFINE id == Head(agenda).on
             calls == [i \in DOMAIN RequiredBy(id) |-> Do("require", RequiredBy(id)[i])]
                      \o BodyOf(id) \o <<Do("build", id)>>
  <2>1. CASE agenda' = <<>>
    BY <2>1, KindsOfNone DEF KindsNow, InOrderNow
  <2>2. CASE Then(<<>>)
    <3>1. /\ agenda' \in Seq(Calls) /\ InOrderNow'
          /\ KindsNow' = T /\ ToSet(agenda') = ToSet(Rest)
      BY <1>0, <2>2, AgendaDone
    <3> QED
      BY <3>1
  <2>3. CASE Then(calls)
    <3>1. /\ calls \in Seq(Calls) /\ Ordered(calls)
          /\ id # "init" => KindsOf(calls) \subseteq {"require", "build"}
          /\ id = "init" => /\ {"hook", "bootstrap", "loadPlugins", "joinInit"} \subseteq KindsOf(calls)
                            /\ KindsOf(calls) \subseteq {"hook", "require", "bootstrap", "loadPlugins",
                                                         "joinInit", "build"}
      BY <1>0, AgendaBefore, CallIs, ModuleCalls
    <3> HIDE DEF calls
    <3>2. \A x \in KindsOf(calls), y \in T : y \in After(x)
      BY <1>2, <3>1, AfterIs
    <3>3. /\ agenda' \in Seq(Calls) /\ InOrderNow'
          /\ KindsNow' = KindsOf(calls) \cup T
          /\ ToSet(agenda') = ToSet(calls) \cup ToSet(Rest)
      BY <1>0, <2>3, <3>1, <3>2, AgendaOfStep
    <3> QED
      BY <1>2, <3>1, <3>3
  <2> QED
    BY <2>1, <2>2, <2>3 DEF Require, Throw
<1> HIDE DEF T
<1> USE DEF ReadyInv
<1>4. BootTyped'
  BY <1>1, <1>2, <1>3 DEF BootTyped
<1>5. Waiting'
  BY <1>1, <1>2, <1>3 DEF Waiting, Waits
<1>6. InitJoin'
  BY <1>1, <1>2, <1>3 DEF InitJoin, InitPending, Count, Has, Waits, IsFired, Early, Native,
    Cordova, PluginsReady
<1>7. ReadyJoin'
  BY <1>1, <1>2, <1>3 DEF ReadyJoin, InitJoin, ReadyPending, Count, Has, Waits, IsFired,
    Cordova, Dom
<1>8. PluginsCome'
  BY <1>1, <1>2, <1>3 DEF PluginsCome, Has, IsFired, Timed, Early, PluginsReady
<1>9. ScriptsCounted'
  BY <1>1, <1>2, <1>3 DEF ScriptsCounted
<1>10. Outside'
  BY <1>1, <1>2, <1>3 DEF Outside, Has, IsFired, Native, Dom, Early
<1>11. Mapped'
  BY <1>1, <1>2, <1>3 DEF Mapped, Has, IsFired, Do, Cordova
<1>12. Told'
  BY <1>1, <1>2, <1>3 DEF Told, Has, IsFired, Timed
<1>13. Constructs'
  BY <1>1, <1>2, <1>3 DEF Constructs, Has, IsFired, Waits, Cordova
<1> QED
  BY <1>3, <1>4, <1>5, <1>6, <1>7, <1>8, <1>9, <1>10, <1>11, <1>12, <1>13

-----------------------------------------------------------------------------
(* The function of the first join, which maps the modules *)

(* modulemapper requires and assigns each symbol. *)
LEMMA MapCalls ==
  ASSUME symbols \in Seq(Modules \ {"init"})
  PROVE  /\ MapModules \in Seq(Calls) /\ Ordered(MapModules)
         /\ KindsOf(MapModules) \subseteq {"require", "assign"}
         /\ \A id \in ToSet(symbols) : Do("assign", id) \in ToSet(MapModules)
<1> DEFINE n == Len(symbols)
           m == MapModules
<1>1. n \in Nat /\ \A k \in 1 .. n : symbols[k] \in Modules \ {"init"}
  OBVIOUS
<1>2. \A i \in 1 .. 2 * n : (i + 1) \div 2 \in 1 .. n
  BY <1>1
<1>3. /\ DOMAIN m = 1 .. 2 * n
      /\ \A i \in 1 .. 2 * n :
            m[i] = Do(IF i % 2 = 1 THEN "require" ELSE "assign", symbols[(i + 1) \div 2])
  BY DEF MapModules
<1>4. \A i \in 1 .. 2 * n : m[i] \in Calls /\ KindOf(m[i]) \in {"require", "assign"}
  <2>1. ASSUME NEW i \in 1 .. 2 * n PROVE m[i] \in Calls /\ KindOf(m[i]) \in {"require", "assign"}
    <3>1. PICK id \in Modules \ {"init"} : id = symbols[(i + 1) \div 2]
      BY <1>1, <1>2
    <3>2. CASE i % 2 = 1
      <4>1. m[i] = Do("require", id)
        BY <1>3, <3>1, <3>2
      <4>2. Do("require", id) \in Calls /\ KindOf(Do("require", id)) = "require"
        BY NamesInCalls, KindsOfCalls, ZenonT(30)
      <4> QED
        BY <4>1, <4>2
    <3>3. CASE i % 2 # 1
      <4>1. m[i] = Do("assign", id)
        BY <1>3, <3>1, <3>3
      <4>2. Do("assign", id) \in Calls /\ KindOf(Do("assign", id)) = "assign"
        BY NamesInCalls, KindsOfCalls, ZenonT(30)
      <4> QED
        BY <4>1, <4>2
    <3> QED
      BY <3>2, <3>3
  <2> QED
    BY <2>1
<1>5. m \in Seq(Calls)
  <2>1. m = [i \in 1 .. 2 * n |-> m[i]] /\ 2 * n \in Nat
    BY <1>1 DEF MapModules
  <2> HIDE DEF m
  <2> QED
    BY <1>4, <2>1
<1> HIDE DEF m
<1>6. KindsOf(m) \subseteq {"require", "assign"}
  BY <1>3, <1>4 DEF KindsOf
<1>7. Ordered(m)
  <2>1. \A x, y \in KindsOf(m) : y \in After(x)
    BY <1>6, AfterIs
  <2> QED
    BY <2>1, OrderedAlike
<1>8. ASSUME NEW id \in ToSet(symbols) PROVE Do("assign", id) \in ToSet(m)
  <2>1. PICK k \in 1 .. n : id = symbols[k]
    BY <1>1 DEF ToSet
  <2>2. 2 * k \in 1 .. 2 * n /\ (2 * k) % 2 # 1 /\ (2 * k + 1) \div 2 = k
    BY <1>1
  <2>3. m[2 * k] = Do("assign", id)
    BY <1>3, <2>1, <2>2
  <2> QED
    BY <1>3, <2>2, <2>3 DEF ToSet
<1> QED
  BY <1>5, <1>6, <1>7, <1>8 DEF m

LEMMA InitStepKeeps == ASSUME ReadyInv, InitStep PROVE ReadyInv'
<1> DEFINE T == KindsOf(Rest)
<1>0. agenda # <<>> /\ Head(agenda).do = "call"
  BY DEF InitStep, First
<1>1. UNCHANGED <<chan, timers, scripts, scriptCounter, symbols, window, readyState, listens,
                  heard, constructor, secret>>
  BY DEF InitStep, loaderVars, moduleVars, pageVars, setupVars
<1>2. /\ KindsNow = {"initStep"} \cup T /\ ToSet(agenda) = {Head(agenda)} \cup ToSet(Rest)
      /\ T \subseteq {"waitPlugins", "build", "settle"}
      /\ Head(agenda) # Do("assign", Head(agenda).on)
  <2>1. Head(agenda).on = "initStep"
    BY DEF InitStep
  <2>2. KindOf(Head(agenda)) = "initStep"
    BY <1>0, <2>1, AgendaBefore, CallIs
  <2>3. Do("assign", Head(agenda).on).do = "assign"
    BY DEF Do
  <2> QED
    BY <1>0, <2>2, <2>3, AgendaBefore, AfterIs
<1>3. /\ agenda' \in Seq(Calls) /\ InOrderNow' /\ ToSet(Rest) \subseteq ToSet(agenda')
      /\ \/ left.init # 1 /\ KindsNow' = T
         \/ /\ left.init = 1 /\ T \subseteq {"build", "settle"} /\ T \subseteq KindsNow'
            /\ {Cordova, "joinReady"} \subseteq KindsNow'
            /\ KindsNow' \subseteq {"require", "assign", Cordova, "joinReady"} \cup T
            /\ \A id \in ToSet(symbols) : Do("assign", id) \in ToSet(agenda')
  <2>1. CASE left.init # 1
    <3>1. Then(<<>>)
      BY <2>1 DEF InitStep
    <3>2. /\ agenda' \in Seq(Calls) /\ InOrderNow'
          /\ KindsNow' = T /\ ToSet(agenda') = ToSet(Rest)
      BY <1>0, <3>1, AgendaDone
    <3> QED
      BY <2>1, <3>2
  <2>2. CASE left.init = 1
    <3> DEFINE m == MapModules
               p == <<Do("fire", Cordova), Do("joinReady", "")>>
    <3>1. Then(m \o p)
      BY <2>2 DEF InitStep, Cordova
    <3>2. /\ m \in Seq(Calls) /\ Ordered(m) /\ KindsOf(m) \subseteq {"require", "assign"}
          /\ \A id \in ToSet(symbols) : Do("assign", id) \in ToSet(m)
      BY MapCalls DEF ReadyInv, BootTyped
    <3>3. p \in Seq(Calls) /\ Ordered(p) /\ KindsOf(p) = {Cordova, "joinReady"}
      <4>1. /\ Do("fire", Cordova) \in Calls /\ Do("joinReady", "") \in Calls
            /\ KindOf(Do("fire", Cordova)) = Cordova /\ KindOf(Do("joinReady", "")) = "joinReady"
        BY NamesInCalls, KindsOfCalls, ChannelsApart
      <4>2. "joinReady" \in After(Cordova)
        BY AfterIs
      <4> QED
        <5>1. PICK x, y : x = Do("fire", Cordova) /\ y = Do("joinReady", "")
          BY Zenon
        <5>2. /\ x \in Calls
              /\ y \in Calls
              /\ KindOf(x) = Cordova
              /\ KindOf(y) = "joinReady"
              /\ p = <<x, y>>
          BY <4>1, <5>1, Zenon
        <5>3. KindOf(y) \in After(KindOf(x))
          BY <4>2, <5>2, Zenon
        <5>4. /\ <<x, y>> \in Seq(Calls) /\ Ordered(<<x, y>>)
              /\ KindsOf(<<x, y>>) = {KindOf(x), KindOf(y)}
          BY <5>2, <5>3, PairOfCalls
        <5> QED
          BY <5>2, <5>4, Zenon
    <3> HIDE DEF m, p
    <3>4. T \subseteq {"build", "settle"}
      BY <1>2, <2>2 DEF ReadyInv, InitJoin, InitPending, Count, Cordova, PluginsReady
    <3>5. /\ m \o p \in Seq(Calls) /\ KindsOf(m \o p) = KindsOf(m) \cup KindsOf(p)
          /\ ToSet(m \o p) = ToSet(m) \cup ToSet(p)
      BY <3>2, <3>3, KindsOfConcat
    <3>6. \A x \in KindsOf(m), y \in KindsOf(p) : y \in After(x)
      BY <3>2, <3>3, AfterIs
    <3>7. Ordered(m \o p)
      BY <3>2, <3>3, <3>6, OrderedConcat
    <3>8. \A x \in KindsOf(m \o p), y \in T : y \in After(x)
      BY <3>2, <3>3, <3>4, <3>5, AfterIs
    <3>9. /\ agenda' \in Seq(Calls) /\ InOrderNow'
          /\ KindsNow' = KindsOf(m \o p) \cup T
          /\ ToSet(agenda') = ToSet(m \o p) \cup ToSet(Rest)
      BY <1>0, <3>1, <3>5, <3>7, <3>8, AgendaOfStep
    <3> QED
      BY <2>2, <3>2, <3>3, <3>4, <3>5, <3>9
  <2> QED
    BY <2>1, <2>2
<1>4. left' = [left EXCEPT !.init = @ - 1]
  BY DEF InitStep
<1> HIDE DEF T
<1> USE DEF ReadyInv
<1>5. BootTyped'
  BY <1>1, <1>2, <1>3, <1>4 DEF BootTyped
<1>6. Waiting'
  BY <1>1, <1>2, <1>3, <1>4 DEF Waiting, Waits
<1>7. InitJoin'
  BY <1>1, <1>2, <1>3, <1>4 DEF InitJoin, InitPending, Count, Has, Waits, IsFired, Early,
    Native, Cordova, PluginsReady
<1>8. ReadyJoin'
  BY <1>1, <1>2, <1>3, <1>4 DEF ReadyJoin, InitJoin, ReadyPending, Count, Has, Waits,
    IsFired, Cordova, Dom, PluginsReady, InitPending
<1>9. PluginsCome'
  BY <1>1, <1>2, <1>3, <1>4 DEF PluginsCome, Has, IsFired, Timed, Early, PluginsReady,
    InitJoin, Cordova
<1>10. ScriptsCounted'
  BY <1>1, <1>2, <1>3, <1>4 DEF ScriptsCounted
<1>11. Outside'
  BY <1>1, <1>2, <1>3, <1>4 DEF Outside, Has, IsFired, Native, Dom, Cordova
<1>12. Mapped'
  BY <1>1, <1>2, <1>3, <1>4 DEF Mapped, Has, IsFired, Do, Cordova, InitJoin, InitPending,
    Count, PluginsReady
<1>13. Told'
  BY <1>1, <1>2, <1>3, <1>4 DEF Told, Has, IsFired, Timed, Cordova
<1>14. Constructs'
  BY <1>1, <1>2, <1>3, <1>4 DEF Constructs, Has, IsFired, Waits, Cordova
<1> QED
  BY <1>3, <1>5, <1>6, <1>7, <1>8, <1>9, <1>10, <1>11, <1>12, <1>13, <1>14

-----------------------------------------------------------------------------
(* What starts a task: timers, scripts, the document and the page. *)

LEMMA AgendaStarts ==
  ASSUME agenda = <<>>
  PROVE  /\ KindsNow = {} /\ ToSet(agenda) = {}
         /\ agenda' = <<>> => /\ agenda' \in Seq(Calls) /\ InOrderNow'
                              /\ KindsNow' = {} /\ ToSet(agenda') = {}
         /\ \A x \in Calls : agenda' = <<x>> =>
               /\ agenda' \in Seq(Calls) /\ InOrderNow'
               /\ KindsNow' = {KindOf(x)} /\ ToSet(agenda') = {x}
<1>1. KindsNow = {} /\ ToSet(agenda) = {}
  BY KindsOfNone DEF KindsNow
<1>2. agenda' = <<>> => /\ agenda' \in Seq(Calls) /\ InOrderNow'
                        /\ KindsNow' = {} /\ ToSet(agenda') = {}
  BY KindsOfNone DEF KindsNow, InOrderNow
<1>3. ASSUME NEW x \in Calls, agenda' = <<x>>
      PROVE  /\ agenda' \in Seq(Calls) /\ InOrderNow'
             /\ KindsNow' = {KindOf(x)} /\ ToSet(agenda') = {x}
  <2>1. KindsOf(<<x>>) = {KindOf(x)} /\ Ordered(<<x>>) /\ ToSet(<<x>>) = {x}
    BY KindsOfOne
  <2> QED
    BY <1>3, <2>1 DEF KindsNow, InOrderNow
<1> QED
  BY <1>1, <1>2, <1>3

LEMMA ToSetTail ==
  ASSUME NEW S, NEW s \in Seq(S), s # <<>>
  PROVE  Tail(s) \in Seq(S) /\ ToSet(s) = {Head(s)} \cup ToSet(Tail(s))
<1>1. /\ Tail(s) \in Seq(S) /\ Head(s) = s[1] /\ 1 \in DOMAIN s
      /\ \A i \in DOMAIN Tail(s) : i + 1 \in DOMAIN s /\ Tail(s)[i] = s[i + 1]
      /\ \A i \in DOMAIN s : i = 1 \/ (i - 1 \in DOMAIN Tail(s) /\ Tail(s)[i - 1] = s[i])
  OBVIOUS
<1> DEFINE t == Tail(s)
           h == Head(s)
<1> HIDE DEF t, h
<1>2. ToSet(s) = {h} \cup ToSet(t)
  <2>1. ASSUME NEW i \in DOMAIN s PROVE s[i] \in {h} \cup ToSet(t)
    BY <1>1 DEF t, h, ToSet
  <2>2. h \in ToSet(s)
    BY <1>1 DEF t, h, ToSet
  <2>3. ASSUME NEW i \in DOMAIN t PROVE t[i] \in ToSet(s)
    BY <1>1 DEF t, h, ToSet
  <2> QED
    BY <2>1, <2>2, <2>3, Zenon DEF ToSet
<1> QED
  BY <1>1, <1>2 DEF t, h

LEMMA LoadPluginsKeeps == ASSUME ReadyInv, LoadPlugins PROVE ReadyInv'
<1>1. /\ agenda = <<>>
      /\ UNCHANGED <<chan, scriptCounter, symbols, window, readyState, listens, heard,
                    constructor, secret, left>>
  BY DEF LoadPlugins, loaderVars, moduleVars, pageVars, setupVars
<1>2. KindsNow = {} /\ ToSet(agenda) = {}
  BY <1>1, AgendaStarts
<1>3. /\ agenda' \in Seq(Calls) /\ InOrderNow' /\ KindsNow' = {} /\ ToSet(agenda') = {}
  BY <1>1, AgendaStarts DEF LoadPlugins
<1>4. /\ timers = <<"loadPlugins">> /\ timers' = <<>> /\ ToSet(timers') = {} /\ Timed("loadPlugins")
      /\ scripts = {} /\ scripts' = {"plugin_list"}
      /\ {"plugin_list"} \ {"plugin_list"} = {} /\ {} \ {"plugin_list"} = {}
  <2>1. timers \in Seq({"loadPlugins", "deviceready"}) /\ timers # <<>> /\ Head(timers) = "loadPlugins"
    BY DEF LoadPlugins, ReadyInv, BootTyped
  <2>2. Timed("loadPlugins")
    BY <2>1, ToSetTail DEF Timed
  <2>3. timers = <<"loadPlugins">>
    BY <2>2 DEF ReadyInv, PluginsCome
  <2>4. timers' = <<>>
    BY <2>3 DEF LoadPlugins
  <2> QED
    BY <2>2, <2>3, <2>4, KindsOfNone DEF LoadPlugins, ReadyInv, PluginsCome
<1> USE DEF ReadyInv
<1>5. BootTyped'
  BY <1>1, <1>2, <1>3, <1>4 DEF BootTyped
<1>6. Waiting'
  BY <1>1, <1>2, <1>3, <1>4 DEF Waiting, Waits
<1>7. InitJoin'
  BY <1>1, <1>2, <1>3, <1>4 DEF InitJoin, InitPending, Count, Has, Waits, IsFired, Early,
     Native, Cordova, PluginsReady, Dom
<1>8. ReadyJoin'
  BY <1>1, <1>2, <1>3, <1>4 DEF ReadyJoin, InitJoin, ReadyPending, Count, Has, Waits,
     IsFired, Cordova, Dom, Native, PluginsReady
<1>9. PluginsCome'
  BY <1>1, <1>2, <1>3, <1>4 DEF PluginsCome, Has, IsFired, Timed, Early, PluginsReady,
     Native, Cordova, Dom
<1>10. ScriptsCounted'
  BY <1>1, <1>2, <1>3, <1>4 DEF ScriptsCounted
<1>11. Outside'
  BY <1>1, <1>2, <1>3, <1>4 DEF Outside, Has, IsFired, Native, Dom, Cordova, PluginsReady
<1>12. Mapped'
  BY <1>1, <1>2, <1>3, <1>4 DEF Mapped, Has, IsFired, Do, Cordova, Native, PluginsReady, Dom
<1>13. Told'
  BY <1>1, <1>2, <1>3, <1>4 DEF Told, Has, IsFired, Timed, Native, Cordova, PluginsReady,
    Dom
<1>14. Constructs'
  BY <1>1, <1>2, <1>3, <1>4 DEF Constructs, Has, IsFired, Waits, Native, Cordova,
    PluginsReady, Dom
<1> QED
  BY <1>3, <1>5, <1>6, <1>7, <1>8, <1>9, <1>10, <1>11, <1>12, <1>13, <1>14

LEMMA PluginListLoadedKeeps == ASSUME ReadyInv, PluginListLoaded PROVE ReadyInv'
<1>1. /\ agenda = <<>>
      /\ UNCHANGED <<chan, timers, symbols, window, readyState, listens, heard, constructor,
                    secret, left>>
  BY DEF PluginListLoaded, loaderVars, moduleVars, pageVars, setupVars
<1>2. KindsNow = {} /\ ToSet(agenda) = {}
  BY <1>1, AgendaStarts
<1>3. /\ agenda' \in Seq(Calls) /\ InOrderNow' /\ KindsNow' \subseteq {"scriptsDone", PluginsReady}
      /\ ~(scripts' # {} /\ KindsNow' # {})
      /\ scripts = {"plugin_list"} /\ scripts' \subseteq Plugins
      /\ scriptCounter' = Cardinality(scripts')
  <2>1. scripts = {"plugin_list"}
    BY DEF PluginListLoaded, ReadyInv, ScriptsCounted
  <2>2. CASE /\ HandlePluginsObject(moduleMap)
    <3> DEFINE missing == Plugins \ moduleMap
    <3>1. /\ scriptCounter' = Cardinality(missing)
          /\ scripts' = (scripts \ {"plugin_list"}) \cup missing
          /\ agenda' = IF missing = {} THEN <<Do("scriptsDone", "")>> ELSE <<>>
      BY <2>2 DEF HandlePluginsObject
    <3>2. scripts' = missing
      BY <2>1, <3>1
    <3>3. Do("scriptsDone", "") \in Calls /\ KindOf(Do("scriptsDone", "")) = "scriptsDone"
      BY NamesInCalls, KindsOfCalls
    <3>4. CASE missing = {}
      BY <1>1, <2>1, <3>1, <3>2, <3>3, <3>4, AgendaStarts, ZenonT(30)
    <3>5. CASE missing # {}
      BY <1>1, <2>1, <3>1, <3>2, <3>5, AgendaStarts
    <3> QED
      BY <3>4, <3>5
  <2>3. CASE /\ scripts' = scripts \ {"plugin_list"}
             /\ agenda' = <<Do("fire", PluginsReady)>>
             /\ scriptCounter' = scriptCounter
    <3>1. Do("fire", PluginsReady) \in Calls /\ KindOf(Do("fire", PluginsReady)) = PluginsReady
      BY NamesInCalls, KindsOfCalls, ChannelsApart
    <3>2. scripts' = {}
      BY <2>1, <2>3
    <3>3. scriptCounter' = Cardinality({})
      <4>1. {"plugin_list"} \ {"plugin_list"} = {}
        OBVIOUS
      <4> QED
        BY <2>1, <2>3, <4>1 DEF ReadyInv, ScriptsCounted
    <3>4. PICK x \in Calls : x = Do("fire", PluginsReady) /\ KindOf(x) = PluginsReady
      BY <3>1
    <3>5. agenda' \in Seq(Calls) /\ InOrderNow' /\ KindsNow' = {KindOf(x)}
      <4>1. agenda' = <<x>>
        BY <2>3, <3>4
      <4> QED
        BY <1>1, <4>1, AgendaStarts
    <3>6. KindsNow' \subseteq {"scriptsDone", PluginsReady}
      BY <3>4, <3>5
    <3> QED
      BY <2>1, <3>2, <3>3, <3>5, <3>6
  <2> QED
    BY <2>2, <2>3 DEF PluginListLoaded, PluginsReady
<1>4. "plugin_list" \notin scripts' /\ scripts' \ {"plugin_list"} = scripts'
  BY <1>3, PluginsAssumption
<1> USE DEF ReadyInv
<1>5. BootTyped'
  BY <1>1, <1>2, <1>3, <1>4 DEF BootTyped
<1>6. Waiting'
  BY <1>1, <1>2, <1>3, <1>4 DEF Waiting, Waits
<1>7. InitJoin'
  BY <1>1, <1>2, <1>3, <1>4 DEF InitJoin, InitPending, Count, Has, Waits, IsFired, Early,
     Native, Cordova, PluginsReady, Dom
<1>8. ReadyJoin'
  BY <1>1, <1>2, <1>3, <1>4 DEF ReadyJoin, InitJoin, ReadyPending, Count, Has, Waits,
     IsFired, Cordova, Dom, Native, PluginsReady
<1>9. PluginsCome'
  BY <1>1, <1>2, <1>3, <1>4 DEF PluginsCome, Has, IsFired, Timed, Early, PluginsReady,
     Native, Cordova, Dom
<1>10. ScriptsCounted'
  BY <1>1, <1>2, <1>3, <1>4 DEF ScriptsCounted
<1>11. Outside'
  BY <1>1, <1>2, <1>3, <1>4 DEF Outside, Has, IsFired, Native, Dom, Cordova, PluginsReady
<1>12. Mapped'
  BY <1>1, <1>2, <1>3, <1>4 DEF Mapped, Has, IsFired, Do, Cordova, Native, PluginsReady, Dom
<1>13. Told'
  BY <1>1, <1>2, <1>3, <1>4 DEF Told, Has, IsFired, Timed, Native, Cordova, PluginsReady,
    Dom
<1>14. Constructs'
  BY <1>1, <1>2, <1>3, <1>4 DEF Constructs, Has, IsFired, Waits, Native, Cordova,
    PluginsReady, Dom
<1> QED
  BY <1>3, <1>5, <1>6, <1>7, <1>8, <1>9, <1>10, <1>11, <1>12, <1>13, <1>14

LEMMA PluginScriptLoadedKeeps ==
  ASSUME ReadyInv, NEW id \in Plugins, PluginScriptLoaded(id)
  PROVE  ReadyInv'
<1>1. /\ agenda = <<>>
      /\ UNCHANGED <<chan, timers, symbols, window, readyState, listens, heard, constructor,
                    secret, left>>
  BY DEF PluginScriptLoaded, loaderVars, moduleVars, pageVars, setupVars
<1>2. KindsNow = {} /\ ToSet(agenda) = {}
  BY <1>1, AgendaStarts
<1>3. /\ "plugin_list" \notin scripts /\ id \in scripts
      /\ scripts' = scripts \ {id} /\ scripts' \ {"plugin_list"} = scripts' /\ scripts \subseteq Plugins
      /\ scriptCounter' = Cardinality(scripts')
      /\ scriptCounter = 1 => scripts' = {}
  <2>1. id \in scripts /\ id # "plugin_list" /\ scripts' = scripts \ {id}
    BY DEF PluginScriptLoaded
  <2>2. "plugin_list" \notin scripts
    BY <2>1 DEF ReadyInv, ScriptsCounted
  <2>3. scripts \ {"plugin_list"} = scripts /\ scripts \subseteq Plugins
    BY <2>2 DEF ReadyInv, ScriptsCounted
  <2>4. IsFiniteSet(scripts)
    BY <2>3, PluginsAssumption, FS_Subset
  <2>5. scriptCounter = Cardinality(scripts)
    BY <2>3 DEF ReadyInv, ScriptsCounted
  <2>6. IsFiniteSet(scripts \ {id}) /\ Cardinality(scripts \ {id}) = Cardinality(scripts) - 1
    BY <2>1, <2>4, FS_RemoveElement
  <2>7. scriptCounter' = Cardinality(scripts')
    BY <2>1, <2>5, <2>6 DEF PluginScriptLoaded
  <2>8. scriptCounter = 1 => scripts' = {}
    BY <2>1, <2>5, <2>6, FS_EmptySet
  <2> QED
    BY <2>1, <2>2, <2>3, <2>7, <2>8
<1>4. /\ agenda' \in Seq(Calls) /\ InOrderNow' /\ KindsNow' \subseteq {"scriptsDone"}
      /\ scripts' # {} => KindsNow' = {}
  <2>1. Do("scriptsDone", "") \in Calls /\ KindOf(Do("scriptsDone", "")) = "scriptsDone"
    BY NamesInCalls, KindsOfCalls
  <2>2. agenda' = IF scriptCounter = 1 THEN <<Do("scriptsDone", "")>> ELSE <<>>
    BY DEF PluginScriptLoaded
  <2>3. CASE scriptCounter = 1
    BY <1>1, <1>3, <2>1, <2>2, <2>3, AgendaStarts
  <2>4. CASE scriptCounter # 1
    BY <1>1, <2>2, <2>4, AgendaStarts
  <2> QED
    BY <2>3, <2>4
<1> USE DEF ReadyInv
<1>5. BootTyped'
  BY <1>1, <1>2, <1>3, <1>4 DEF BootTyped
<1>6. Waiting'
  BY <1>1, <1>2, <1>3, <1>4 DEF Waiting, Waits
<1>7. InitJoin'
  BY <1>1, <1>2, <1>3, <1>4 DEF InitJoin, InitPending, Count, Has, Waits, IsFired, Early,
     Native, Cordova, PluginsReady, Dom
<1>8. ReadyJoin'
  BY <1>1, <1>2, <1>3, <1>4 DEF ReadyJoin, InitJoin, ReadyPending, Count, Has, Waits,
     IsFired, Cordova, Dom, Native, PluginsReady
<1>9. PluginsCome'
  BY <1>1, <1>2, <1>3, <1>4 DEF PluginsCome, Has, IsFired, Timed, Early, PluginsReady,
     Native, Cordova, Dom
<1>10. ScriptsCounted'
  BY <1>1, <1>2, <1>3, <1>4 DEF ScriptsCounted
<1>11. Outside'
  BY <1>1, <1>2, <1>3, <1>4 DEF Outside, Has, IsFired, Native, Dom, Cordova, PluginsReady
<1>12. Mapped'
  BY <1>1, <1>2, <1>3, <1>4 DEF Mapped, Has, IsFired, Do, Cordova, Native, PluginsReady, Dom
<1>13. Told'
  BY <1>1, <1>2, <1>3, <1>4 DEF Told, Has, IsFired, Timed, Native, Cordova, PluginsReady,
    Dom
<1>14. Constructs'
  BY <1>1, <1>2, <1>3, <1>4 DEF Constructs, Has, IsFired, Waits, Native, Cordova,
    PluginsReady, Dom
<1> QED
  BY <1>3, <1>4, <1>5, <1>6, <1>7, <1>8, <1>9, <1>10, <1>11, <1>12, <1>13, <1>14

LEMMA DOMContentLoadedKeeps == ASSUME ReadyInv, DOMContentLoaded PROVE ReadyInv'
<1>1. /\ agenda = <<>>
      /\ UNCHANGED <<chan, timers, scripts, scriptCounter, symbols, window, listens, heard,
                    constructor, secret, left>>
  BY DEF DOMContentLoaded, loaderVars, moduleVars, pageVars, setupVars
<1>2. KindsNow = {} /\ ToSet(agenda) = {}
  BY <1>1, AgendaStarts
<1>3. /\ agenda' \in Seq(Calls) /\ InOrderNow' /\ KindsNow' \subseteq {Dom}
      /\ readyState = "loading" /\ readyState' = "interactive"
  <2>1. Do("fire", Dom) \in Calls /\ KindOf(Do("fire", Dom)) = Dom
    BY NamesInCalls, KindsOfCalls, ChannelsApart
  <2>2. agenda' = IF domHook THEN <<Do("fire", Dom)>> ELSE <<>>
    BY DEF DOMContentLoaded, Dom
  <2> QED
    BY <1>1, <2>1, <2>2, AgendaStarts DEF DOMContentLoaded
<1> USE DEF ReadyInv
<1>4. BootTyped'
  BY <1>1, <1>2, <1>3 DEF BootTyped
<1>5. Waiting'
  BY <1>1, <1>2, <1>3 DEF Waiting, Waits
<1>6. InitJoin'
  BY <1>1, <1>2, <1>3 DEF InitJoin, InitPending, Count, Has, Waits, IsFired, Early, Native,
     Cordova, PluginsReady, Dom
<1>7. ReadyJoin'
  BY <1>1, <1>2, <1>3 DEF ReadyJoin, InitJoin, ReadyPending, Count, Has, Waits, IsFired,
     Cordova, Dom, Native, PluginsReady
<1>8. PluginsCome'
  BY <1>1, <1>2, <1>3 DEF PluginsCome, Has, IsFired, Timed, Early, PluginsReady, Native,
     Cordova, Dom
<1>9. ScriptsCounted'
  BY <1>1, <1>2, <1>3 DEF ScriptsCounted
<1>10. Outside'
  BY <1>1, <1>2, <1>3 DEF Outside, Has, IsFired, Native, Dom, Cordova, PluginsReady
<1>11. Mapped'
  BY <1>1, <1>2, <1>3 DEF Mapped, Has, IsFired, Do, Cordova, Native, PluginsReady, Dom
<1>12. Told'
  BY <1>1, <1>2, <1>3 DEF Told, Has, IsFired, Timed, Native, Cordova, PluginsReady, Dom
<1>13. Constructs'
  BY <1>1, <1>2, <1>3 DEF Constructs, Has, IsFired, Waits, Native, Cordova, PluginsReady,
    Dom
<1> QED
  BY <1>3, <1>4, <1>5, <1>6, <1>7, <1>8, <1>9, <1>10, <1>11, <1>12, <1>13

LEMMA TellPageKeeps == ASSUME ReadyInv, FireDeviceReady PROVE ReadyInv'
<1>1. /\ agenda = <<>>
      /\ UNCHANGED <<chan, scripts, scriptCounter, symbols, window, readyState, listens, heard,
                    constructor, secret, left>>
  BY DEF FireDeviceReady, loaderVars, moduleVars, pageVars, setupVars
<1>2. KindsNow = {} /\ ToSet(agenda) = {}
  BY <1>1, AgendaStarts
<1>3. /\ agenda' \in Seq(Calls) /\ InOrderNow' /\ KindsNow' \subseteq {"onReady", "deviceready"}
  <2>1. /\ Do("fire", "deviceready") \in Calls /\ KindOf(Do("fire", "deviceready")) = "deviceready"
        /\ Do("call", "onReady") \in Calls /\ KindOf(Do("call", "onReady")) = "onReady"
    BY NamesInCalls, KindsOfCalls, ChannelsApart
  <2>2. PICK x \in Calls, y \in Calls : /\ x = Do("call", "onReady") /\ KindOf(x) = "onReady"
                                        /\ y = Do("fire", "deviceready") /\ KindOf(y) = "deviceready"
    BY <2>1
  <2>3. agenda' = (IF listens = "early" THEN <<x>> ELSE <<>>) \o <<y>>
    BY <2>2 DEF FireDeviceReady
  <2>4. <<x>> \in Seq(Calls) /\ <<y>> \in Seq(Calls) /\ <<>> \in Seq(Calls)
    OBVIOUS
  <2>5. /\ KindsOf(<<x>>) = {"onReady"} /\ Ordered(<<x>>)
        /\ KindsOf(<<y>>) = {"deviceready"} /\ Ordered(<<y>>)
        /\ KindsOf(<<>>) = {} /\ Ordered(<<>>)
    BY <2>2, KindsOfOne, KindsOfNone
  <2>6. PICK a \in Seq(Calls) : /\ KindsOf(a) \subseteq {"onReady"} /\ Ordered(a)
                                /\ agenda' = a \o <<y>>
    BY <2>3, <2>4, <2>5
  <2>7. a \o <<y>> \in Seq(Calls) /\ KindsOf(a \o <<y>>) = KindsOf(a) \cup KindsOf(<<y>>)
    BY <2>4, KindsOfConcat
  <2>8. \A v \in KindsOf(a), w \in KindsOf(<<y>>) : w \in After(v)
    BY <2>5, <2>6, AfterIs
  <2>9. Ordered(a \o <<y>>)
    BY <2>4, <2>5, <2>6, <2>8, OrderedConcat
  <2> QED
    BY <2>5, <2>6, <2>7, <2>9 DEF KindsNow, InOrderNow
<1>4. /\ timers' \in Seq({"loadPlugins", "deviceready"}) /\ Timed("deviceready")
      /\ Timed("loadPlugins")' => Timed("loadPlugins")
      /\ ~Timed("loadPlugins")
  <2>1. timers \in Seq({"loadPlugins", "deviceready"}) /\ timers # <<>> /\ Head(timers) = "deviceready"
        /\ timers' = Tail(timers)
    BY DEF FireDeviceReady, ReadyInv, BootTyped
  <2>2. Tail(timers) \in Seq({"loadPlugins", "deviceready"})
        /\ ToSet(timers) = {Head(timers)} \cup ToSet(Tail(timers))
    BY <2>1, ToSetTail
  <2>3. ~Timed("loadPlugins")
    <3>1. timers = <<"loadPlugins">> => Head(timers) = "loadPlugins"
      OBVIOUS
    <3> QED
      BY <2>1, <3>1 DEF ReadyInv, PluginsCome
  <2> QED
    BY <2>1, <2>2, <2>3 DEF Timed
<1> USE DEF ReadyInv
<1>5. BootTyped'
  BY <1>1, <1>2, <1>3, <1>4 DEF BootTyped
<1>6. Waiting'
  BY <1>1, <1>2, <1>3, <1>4 DEF Waiting, Waits
<1>7. InitJoin'
  BY <1>1, <1>2, <1>3, <1>4 DEF InitJoin, InitPending, Count, Has, Waits, IsFired, Early,
     Native, Cordova, PluginsReady, Dom
<1>8. ReadyJoin'
  BY <1>1, <1>2, <1>3, <1>4 DEF ReadyJoin, InitJoin, ReadyPending, Count, Has, Waits,
     IsFired, Cordova, Dom, Native, PluginsReady
<1>9. PluginsCome'
  BY <1>1, <1>2, <1>3, <1>4 DEF PluginsCome, Has, IsFired, Timed, Early, PluginsReady,
     Native, Cordova, Dom
<1>10. ScriptsCounted'
  BY <1>1, <1>2, <1>3, <1>4 DEF ScriptsCounted
<1>11. Outside'
  BY <1>1, <1>2, <1>3, <1>4 DEF Outside, Has, IsFired, Native, Dom, Cordova, PluginsReady
<1>12. Mapped'
  BY <1>1, <1>2, <1>3, <1>4 DEF Mapped, Has, IsFired, Do, Cordova, Native, PluginsReady, Dom
<1>13. Told'
  BY <1>1, <1>2, <1>3, <1>4 DEF Told, Has, IsFired, Timed, Native, Cordova, PluginsReady,
    Dom
<1>14. Constructs'
  BY <1>1, <1>2, <1>3, <1>4 DEF Constructs, Has, IsFired, Waits, Native, Cordova,
    PluginsReady, Dom
<1> QED
  BY <1>3, <1>5, <1>6, <1>7, <1>8, <1>9, <1>10, <1>11, <1>12, <1>13, <1>14

LEMMA ListenKeeps == ASSUME ReadyInv, Listen PROVE ReadyInv'
<1>1. /\ agenda = <<>>
      /\ UNCHANGED <<chan, timers, scripts, scriptCounter, symbols, window, readyState, heard,
                    constructor, secret, left>>
  BY DEF Listen, loaderVars, moduleVars, pageVars, setupVars
<1>2. KindsNow = {} /\ ToSet(agenda) = {}
  BY <1>1, AgendaStarts
<1>3. /\ agenda' \in Seq(Calls) /\ InOrderNow' /\ KindsNow' = {"listen"}
  <2>1. Sub("deviceready", "onReady") \in Calls /\ KindOf(Sub("deviceready", "onReady")) = "listen"
    BY NamesInCalls, KindsOfCalls DEF OtherSubs
  <2> QED
    BY <1>1, <2>1, AgendaStarts DEF Listen
<1> USE DEF ReadyInv
<1>4. BootTyped'
  BY <1>1, <1>2, <1>3 DEF BootTyped
<1>5. Waiting'
  BY <1>1, <1>2, <1>3 DEF Waiting, Waits
<1>6. InitJoin'
  BY <1>1, <1>2, <1>3 DEF InitJoin, InitPending, Count, Has, Waits, IsFired, Early, Native,
     Cordova, PluginsReady, Dom
<1>7. ReadyJoin'
  BY <1>1, <1>2, <1>3 DEF ReadyJoin, InitJoin, ReadyPending, Count, Has, Waits, IsFired,
     Cordova, Dom, Native, PluginsReady
<1>8. PluginsCome'
  BY <1>1, <1>2, <1>3 DEF PluginsCome, Has, IsFired, Timed, Early, PluginsReady, Native,
     Cordova, Dom
<1>9. ScriptsCounted'
  BY <1>1, <1>2, <1>3 DEF ScriptsCounted
<1>10. Outside'
  BY <1>1, <1>2, <1>3 DEF Outside, Has, IsFired, Native, Dom, Cordova, PluginsReady
<1>11. Mapped'
  BY <1>1, <1>2, <1>3 DEF Mapped, Has, IsFired, Do, Cordova, Native, PluginsReady, Dom
<1>12. Told'
  BY <1>1, <1>2, <1>3 DEF Told, Has, IsFired, Timed, Native, Cordova, PluginsReady, Dom
<1>13. Constructs'
  BY <1>1, <1>2, <1>3 DEF Constructs, Has, IsFired, Waits, Native, Cordova, PluginsReady,
    Dom
<1> QED
  BY <1>3, <1>4, <1>5, <1>6, <1>7, <1>8, <1>9, <1>10, <1>11, <1>12, <1>13

LEMMA AddConstructorKeeps == ASSUME ReadyInv, AddConstructor PROVE ReadyInv'
<1>1. /\ agenda = <<>>
      /\ UNCHANGED <<chan, timers, scripts, scriptCounter, symbols, window, readyState, listens,
                    heard, secret, left>>
  BY DEF AddConstructor, loaderVars, moduleVars, pageVars, setupVars
<1>2. KindsNow = {} /\ ToSet(agenda) = {}
  BY <1>1, AgendaStarts
<1>3. /\ agenda' \in Seq(Calls)
      /\ InOrderNow'
      /\ KindsNow' = {"waitConstruct"}
      /\ constructor' = "given"
  <2>1. Sub(Cordova, "construct") \in Calls /\ KindOf(Sub(Cordova, "construct")) = "waitConstruct"
    BY NamesInCalls, KindsOfCalls DEF OtherSubs
  <2> QED
    BY <1>1, <2>1, AgendaStarts DEF AddConstructor, Cordova
<1> USE DEF ReadyInv
<1>4. BootTyped'
  BY <1>1, <1>2, <1>3 DEF BootTyped
<1>5. Waiting'
  BY <1>1, <1>2, <1>3 DEF Waiting, Waits
<1>6. InitJoin'
  BY <1>1, <1>2, <1>3 DEF InitJoin, InitPending, Count, Has, Waits, IsFired, Early, Native,
     Cordova, PluginsReady, Dom
<1>7. ReadyJoin'
  BY <1>1, <1>2, <1>3 DEF ReadyJoin, InitJoin, ReadyPending, Count, Has, Waits, IsFired,
     Cordova, Dom, Native, PluginsReady
<1>8. PluginsCome'
  BY <1>1, <1>2, <1>3 DEF PluginsCome, Has, IsFired, Timed, Early, PluginsReady, Native,
     Cordova, Dom
<1>9. ScriptsCounted'
  BY <1>1, <1>2, <1>3 DEF ScriptsCounted
<1>10. Outside'
  BY <1>1, <1>2, <1>3 DEF Outside, Has, IsFired, Native, Dom, Cordova, PluginsReady
<1>11. Mapped'
  BY <1>1, <1>2, <1>3 DEF Mapped, Has, IsFired, Do, Cordova, Native, PluginsReady, Dom
<1>12. Told'
  BY <1>1, <1>2, <1>3 DEF Told, Has, IsFired, Timed, Native, Cordova, PluginsReady, Dom
<1>13. Constructs'
  BY <1>1, <1>2, <1>3 DEF Constructs, Has, IsFired, Waits, Native, Cordova, PluginsReady,
    Dom
<1> QED
  BY <1>3, <1>4, <1>5, <1>6, <1>7, <1>8, <1>9, <1>10, <1>11, <1>12, <1>13

LEMMA BackListenKeeps == ASSUME ReadyInv, NEW h \in BackListeners, BackListen(h) PROVE ReadyInv'
<1>1. /\ agenda = <<>>
      /\ UNCHANGED <<chan, timers, scripts, scriptCounter, symbols, window, readyState, listens,
                    heard, constructor, secret, left>>
  BY DEF BackListen, loaderVars, moduleVars, pageVars, setupVars
<1>2. KindsNow = {} /\ ToSet(agenda) = {}
  BY <1>1, AgendaStarts
<1>3. /\ agenda' \in Seq(Calls) /\ InOrderNow' /\ KindsNow' \subseteq {"listen", "unsubscribe"}
  <2>1. Sub("backbutton", h) \in Calls /\ Unsub("backbutton", h) \in Calls
    BY DEF Calls
  <2>2. KindOf(Sub("backbutton", h)) = "listen"
    BY DEF KindOf, Sub
  <2>3. KindOf(Unsub("backbutton", h)) = "unsubscribe"
    BY DEF KindOf, Unsub
  <2> QED
    BY <1>1, <2>1, <2>2, <2>3, AgendaStarts DEF BackListen
<1> USE DEF ReadyInv
<1>4. BootTyped'
  BY <1>1, <1>2, <1>3 DEF BootTyped
<1>5. Waiting'
  BY <1>1, <1>2, <1>3 DEF Waiting, Waits
<1>6. InitJoin'
  BY <1>1, <1>2, <1>3 DEF InitJoin, InitPending, Count, Has, Waits, IsFired, Early, Native,
     Cordova, PluginsReady, Dom
<1>7. ReadyJoin'
  BY <1>1, <1>2, <1>3 DEF ReadyJoin, InitJoin, ReadyPending, Count, Has, Waits, IsFired,
     Cordova, Dom, Native, PluginsReady
<1>8. PluginsCome'
  BY <1>1, <1>2, <1>3 DEF PluginsCome, Has, IsFired, Timed, Early, PluginsReady, Native,
     Cordova, Dom
<1>9. ScriptsCounted'
  BY <1>1, <1>2, <1>3 DEF ScriptsCounted
<1>10. Outside'
  BY <1>1, <1>2, <1>3 DEF Outside, Has, IsFired, Native, Dom, Cordova, PluginsReady
<1>11. Mapped'
  BY <1>1, <1>2, <1>3 DEF Mapped, Has, IsFired, Do, Cordova, Native, PluginsReady, Dom
<1>12. Told'
  BY <1>1, <1>2, <1>3 DEF Told, Has, IsFired, Timed, Native, Cordova, PluginsReady, Dom
<1>13. Constructs'
  BY <1>1, <1>2, <1>3 DEF Constructs, Has, IsFired, Waits, Native, Cordova, PluginsReady,
    Dom
<1> QED
  BY <1>3, <1>4, <1>5, <1>6, <1>7, <1>8, <1>9, <1>10, <1>11, <1>12, <1>13

LEMMA SubscribeBack ==
  ASSUME ReadyInv, NEW h \in BackListeners, Subscribe, Head(agenda) = Sub("backbutton", h)
  PROVE  ReadyInv'
<1> DEFINE T == KindsOf(Rest)
<1>0. /\ agenda # <<>>
      /\ Head(agenda).do = "subscribe"
      /\ Head(agenda).on = "backbutton"
      /\ Head(agenda).h = h
  BY DEF Subscribe, First, Sub
<1>1. UNCHANGED <<timers, scripts, scriptCounter, symbols, window, readyState, listens, heard,
                  constructor, secret, left>>
  BY DEF Subscribe, loaderVars, moduleVars, pageVars, setupVars
<1>2. /\ KindsNow = {"listen"} \cup T
      /\ ToSet(agenda) = {Head(agenda)} \cup ToSet(Rest)
      /\ T \subseteq {}
      /\ Head(agenda) # Do("assign", Head(agenda).on)
  <2>1. KindOf(Head(agenda)) = "listen"
    BY DEF KindOf, Sub
  <2>2. Do("assign", Head(agenda).on).do = "assign"
    BY DEF Do
  <2> QED
    BY <1>0, <2>1, <2>2, AgendaBefore, AfterIs
<1>3. /\ agenda' \in Seq(Calls) /\ InOrderNow' /\ KindsNow' = T /\ ToSet(agenda') = ToSet(Rest)
      /\ chan' \in [Channels -> [state : 0 .. 2, handlers : Seq(Handlers)]]
      /\ \A d \in Channels : chan'[d].state = chan[d].state /\ (d # "backbutton" => chan'[d] = chan[d])
  <2>1. "backbutton" \in Channels /\ h \in Handlers
    BY ChannelsApart DEF Handlers
  <2>2. chan["backbutton"].state # 2
    BY DEF ReadyInv, BootTyped
  <2>3. Then(<<>>)
    BY <1>0, <2>1, <2>2, SubscribeDoes
  <2>4. /\ agenda' \in Seq(Calls) /\ InOrderNow' /\ KindsNow' = T /\ ToSet(agenda') = ToSet(Rest)
    BY <1>0, <2>3, AgendaDone
  <2> QED
    BY <1>0, <2>1, <2>2, <2>4, SubscribeDoes
<1>4. /\ StickyChannels = {Native, PluginsReady, Cordova, Dom, "deviceready"}
      /\ StickyChannels \subseteq Channels /\ "backbutton" \in Channels
      /\ "backbutton" \notin StickyChannels
  BY ChannelsApart
<1>5. \A d \in StickyChannels : chan'[d] = chan[d]
  BY <1>3, <1>4
<1> HIDE DEF T
<1> USE DEF ReadyInv
<1>6. BootTyped'
  BY <1>1, <1>2, <1>3, <1>4, <1>5 DEF BootTyped
<1>7. Waiting'
  BY <1>1, <1>2, <1>3, <1>4, <1>5 DEF Waiting, Waits, Native, Cordova, PluginsReady, Dom
<1>8. InitJoin'
  BY <1>1, <1>2, <1>3, <1>4, <1>5 DEF InitJoin, InitPending, Count, Has, Waits, IsFired,
     Early, Native, Cordova, PluginsReady, Dom
<1>9. ReadyJoin'
  BY <1>1, <1>2, <1>3, <1>4, <1>5 DEF ReadyJoin, InitJoin, ReadyPending, Count, Has, Waits,
     IsFired, Cordova, Dom, Native, PluginsReady
<1>10. PluginsCome'
  BY <1>1, <1>2, <1>3, <1>4, <1>5 DEF PluginsCome, Has, IsFired, Timed, Early, PluginsReady,
     Native, Cordova, Dom
<1>11. ScriptsCounted'
  BY <1>1, <1>2, <1>3, <1>4, <1>5 DEF ScriptsCounted
<1>12. Outside'
  BY <1>1, <1>2, <1>3, <1>4, <1>5 DEF Outside, Has, IsFired, Native, Dom, Cordova,
     PluginsReady
<1>13. Mapped'
  BY <1>1, <1>2, <1>3, <1>4, <1>5 DEF Mapped, Has, IsFired, Do, Cordova, Native,
     PluginsReady, Dom
<1>14. Told'
  BY <1>1, <1>2, <1>3, <1>4, <1>5 DEF Told, Has, IsFired, Timed, Native, Cordova,
    PluginsReady, Dom
<1>15. Constructs'
  BY <1>1, <1>2, <1>3, <1>4, <1>5 DEF Constructs, Has, IsFired, Waits, Native, Cordova,
    PluginsReady, Dom
<1> QED
  BY <1>3, <1>6, <1>7, <1>8, <1>9, <1>10, <1>11, <1>12, <1>13, <1>14, <1>15

LEMMA SubscribeKeeps == ASSUME ReadyInv, Subscribe PROVE ReadyInv'
<1>1. Head(agenda) \in Calls /\ Head(agenda).do = "subscribe"
  BY AgendaBefore DEF Subscribe, First
<1>2. \/ Head(agenda) \in JoinSubs \cup OtherSubs
      \/ \E h \in BackListeners : Head(agenda) = Sub("backbutton", h)
  <2> DEFINE x == Head(agenda)
  <2> HIDE DEF x
  <2>0. x.do = "subscribe" /\ x \in Calls
    BY <1>1 DEF x
  <2>1. x \notin {Do("fire", c) : c \in StickyChannels}
    BY <2>0 DEF Do
  <2>2. x \notin {Do("settle", c) : c \in StickyChannels}
    BY <2>0 DEF Do
  <2>3. x \notin {Do("call", h) : h \in {"initStep", "readyStep", "show", "construct", "onReady"}}
    BY <2>0 DEF Do
  <2>4. x \notin {Do("defer", f) : f \in {"loadPlugins", "deviceready"}}
    BY <2>0 DEF Do
  <2>5. x \notin {Do("require", id) : id \in Modules}
    BY <2>0 DEF Do
  <2>6. x \notin {Do("assign", id) : id \in Modules}
    BY <2>0 DEF Do
  <2>7. x \notin {Do("build", id) : id \in Modules}
    BY <2>0 DEF Do
  <2>8. x \notin {Do(w, "") : w \in {"hook", "bootstrap", "joinInit", "joinReady", "scriptsDone"}}
    <3>1. \A w \in {"hook", "bootstrap", "joinInit", "joinReady", "scriptsDone"} :
             Do(w, "").do = w /\ w # "subscribe"
      BY DEF Do
    <3> QED
      BY <2>0, <3>1
  <2>9. x \notin {Unsub("backbutton", h) : h \in BackListeners}
    BY <2>0 DEF Unsub
  <2>10. x \in JoinSubs \cup OtherSubs \/ x \in {Sub("backbutton", h) : h \in BackListeners}
    BY <2>0, <2>1, <2>2, <2>3, <2>4, <2>5, <2>6, <2>7, <2>8, <2>9, Zenon DEF Calls
  <2> QED
    BY <2>10 DEF x
<1>3. CASE Head(agenda) \in JoinSubs
  BY <1>3, SubscribeNative, SubscribePlugins, SubscribeCordovaStep, SubscribeDom DEF JoinSubs
<1>4. CASE Head(agenda) \in OtherSubs
  BY <1>4, SubscribeShow, SubscribeConstruct, SubscribeReady DEF OtherSubs
<1> QED
  BY <1>2, <1>3, <1>4, SubscribeBack

LEMMA FireKeeps == ASSUME ReadyInv, Fire PROVE ReadyInv'
<1>1. Head(agenda) \in Calls /\ Head(agenda).do = "fire"
  BY AgendaBefore DEF Fire, First
<1>2. Head(agenda).on \in {Native, PluginsReady, Cordova, Dom, "deviceready"}
  BY <1>1, CallIs, ChannelsApart
<1> QED
  BY <1>2, FireNativeKeeps, FirePluginsReadyKeeps, FireCordovaKeeps, FireDomKeeps,
     FireDeviceReadyKeeps

(* What ReadyInv is about stays. *)
LEMMA QuietKeeps ==
  ASSUME ReadyInv,
         UNCHANGED <<chan, agenda, timers, scripts, scriptCounter, symbols, window, readyState,
                     heard, constructor, secret, left>>
  PROVE  ReadyInv'
<1> USE DEF ReadyInv
<1>1. KindsNow' = KindsNow /\ InOrderNow'
  BY DEF KindsNow, InOrderNow
<1>2. BootTyped'
  BY <1>1 DEF BootTyped
<1>3. Waiting'
  BY <1>1 DEF Waiting, Waits
<1>4. InitJoin'
  BY <1>1 DEF InitJoin, InitPending, Count, Has, Waits, IsFired, Early, Native, Cordova,
    PluginsReady
<1>5. ReadyJoin'
  BY <1>1 DEF ReadyJoin, InitJoin, ReadyPending, Count, Has, Waits, IsFired, Cordova, Dom
<1>6. PluginsCome'
  BY <1>1 DEF PluginsCome, Has, IsFired, Timed, Early, PluginsReady
<1>7. ScriptsCounted'
  BY <1>1 DEF ScriptsCounted
<1>8. Outside'
  BY <1>1 DEF Outside, Has, IsFired, Native, Dom
<1>9. Mapped'
  BY <1>1 DEF Mapped, Has, IsFired, Do, Cordova
<1>10. Told'
  BY <1>1 DEF Told, Has, IsFired, Timed
<1>11. Constructs'
  BY <1>1 DEF Constructs, Has, IsFired, Waits
<1> QED
  BY <1>1, <1>2, <1>3, <1>4, <1>5, <1>6, <1>7, <1>8, <1>9, <1>10, <1>11

LEMMA ReadyInvInit == ASSUME BootInit PROVE ReadyInv
<1> DEFINE x == Do("require", "cordova")
           y == Do("require", "init")
<1>1. x \in Calls /\ y \in Calls /\ KindOf(x) = "require" /\ KindOf(y) = "init"
  <2>1. "cordova" \in Modules \ {"init"} /\ "init" \in Modules
    BY DEF Modules, CoreModules, Requires
  <2> QED
    BY <2>1, NamesInCalls, KindsOfCalls, ZenonT(30)
<1>2. agenda = <<x, y>>
  BY DEF BootInit
<1> HIDE DEF x, y
<1>3. agenda \in Seq(Calls) /\ InOrderNow /\ KindsNow = {"require", "init"}
  BY <1>1, <1>2, AfterIs, PairOfCalls DEF InOrderNow, KindsNow
<1>4. /\ chan \in [Channels -> [state : 0 .. 2, handlers : Seq(Handlers)]]
      /\ chan["backbutton"].state = 0
      /\ \A c \in StickyChannels : chan[c].state = 1 /\ chan[c].handlers = <<>>
  <2>1. \A c \in Channels : NewChannel(c \in StickyChannels) \in [state : 0 .. 2, handlers : Seq(Handlers)]
    BY DEF NewChannel
  <2>2. chan = [c \in Channels |-> NewChannel(c \in StickyChannels)]
    BY DEF BootInit
  <2> QED
    BY <2>1, <2>2, ChannelsApart DEF NewChannel
<1>5. StickyChannels = {Native, PluginsReady, Cordova, Dom, "deviceready"}
  BY ChannelsApart
<1>6. /\ timers = <<>> /\ ToSet(timers) = {} /\ scripts = {} /\ scriptCounter = 0 /\ symbols = <<>>
      /\ left = [init |-> 0, ready |-> 0] /\ heard = 0 /\ constructor = "none"
      /\ readyState \in {"loading", "interactive"}
      /\ ToSet(<<>>) = {}
  BY KindsOfNone DEF BootInit
<1>7. BootTyped
  BY <1>3, <1>4, <1>5, <1>6 DEF BootTyped
<1>8. Waiting
  BY <1>3, <1>4, <1>5, <1>6 DEF Waiting, Waits, Native, Cordova, PluginsReady, Dom
<1>9. InitJoin
  BY <1>3, <1>4, <1>5, <1>6 DEF InitJoin, InitPending, Count, Has, Waits, IsFired, Early,
    Native, Cordova, PluginsReady, Dom
<1>10. ReadyJoin
  BY <1>3, <1>4, <1>5, <1>6 DEF ReadyJoin, InitJoin, ReadyPending, Count, Has, Waits,
    IsFired, Cordova, Dom, Native, PluginsReady
<1>11. PluginsCome
  BY <1>3, <1>4, <1>5, <1>6 DEF PluginsCome, Has, IsFired, Timed, Early, PluginsReady,
    Native, Cordova, Dom
<1>12. ScriptsCounted
  BY <1>3, <1>4, <1>5, <1>6, FS_EmptySet DEF ScriptsCounted
<1>13. Outside
  BY <1>3, <1>4, <1>5, <1>6 DEF Outside, Has, IsFired, Native, Dom, Cordova, PluginsReady
<1>14. Mapped
  BY <1>3, <1>4, <1>5, <1>6 DEF Mapped, Has, IsFired, Do, Cordova, Native, PluginsReady, Dom
<1>15. Told
  BY <1>3, <1>4, <1>5, <1>6 DEF Told, Has, IsFired, Timed, Native, Cordova, PluginsReady,
    Dom
<1>16. Constructs
  BY <1>3, <1>4, <1>5, <1>6 DEF Constructs, Has, IsFired, Waits, Native, Cordova,
    PluginsReady, Dom
<1> QED
  BY <1>3, <1>7, <1>8, <1>9, <1>10, <1>11, <1>12, <1>13, <1>14, <1>15, <1>16 DEF ReadyInv

LEMMA ReadyInvNext == ASSUME ReadyInv, [BootNext]_bootVars PROVE ReadyInv'
<1>1. CASE RunTask
  BY <1>1, SubscribeKeeps, UnsubscribeKeeps, FireKeeps, SettleKeeps, RequireKeeps, BuildKeeps,
     HookKeeps, BootstrapKeeps, DeferKeeps, JoinInitKeeps, InitStepKeeps, JoinReadyKeeps,
     ReadyStepKeeps, AssignKeeps, CallHandlerKeeps, ScriptsDoneKeeps
     DEF RunTask
<1>2. CASE Loading
  BY <1>2, LoadPluginsKeeps, PluginListLoadedKeeps, TellPageKeeps, DOMContentLoadedKeeps,
     PluginScriptLoadedKeeps
     DEF Loading
<1>3. CASE PageActs
  <2>1. CASE ListenEarly
    BY <2>1, QuietKeeps DEF ListenEarly, loaderVars, moduleVars, setupVars
  <2> QED
    BY <1>3, <2>1, ListenKeeps, AddConstructorKeeps, BackListenKeeps DEF PageActs
<1>4. CASE UNCHANGED bootVars
  BY <1>4, QuietKeeps DEF bootVars
<1> QED
  BY <1>1, <1>2, <1>3, <1>4 DEF BootNext

LEMMA ReadyInvTells == ASSUME ReadyInv PROVE ReadyMeansReady
<1> SUFFICES ASSUME heard > 0
             PROVE  /\ \A c \in StickyChannels \ {"deviceready"} : chan[c].state = 2
                    /\ secret
                    /\ readyState = "interactive"
                    /\ scripts = {}
                    /\ ToSet(symbols) \subseteq window
                    /\ agenda = <<>> => constructor # "given"
  BY DEF ReadyMeansReady
<1> USE DEF ReadyInv
<1>1. IsFired(Cordova) /\ IsFired(Dom)
  BY DEF Told
<1>2. IsFired(Native) /\ IsFired(PluginsReady)
  BY <1>1 DEF InitJoin
<1>3. \A c \in StickyChannels \ {"deviceready"} : chan[c].state = 2
  BY <1>1, <1>2, ChannelsApart DEF IsFired
<1>4. secret /\ readyState = "interactive"
  BY <1>1, <1>2 DEF Outside
<1>5. scripts = {} /\ ToSet(symbols) \subseteq window
  BY <1>1, <1>2 DEF PluginsCome, Mapped
<1>6. agenda = <<>> => constructor # "given"
  BY <1>1, AgendaStarts DEF Constructs, Has
<1> QED
  BY <1>3, <1>4, <1>5, <1>6

(***************************************************************************)
(* Whatever plugins the page lists, in whatever order its document, the    *)
(* scripts and its timers come: once the page's deviceready listener has   *)
(* been called (cordova.js:1281), the native side is ready, the plugins    *)
(* are loaded and found under their symbols, the document is there, and a  *)
(* constructor that the page gave has run or runs in the same task.        *)
(***************************************************************************)
THEOREM ReadyWhenTold == BootSpec => []ReadyMeansReady
<1>1. BootInit => ReadyInv
  BY ReadyInvInit
<1>2. ReadyInv /\ [BootNext]_bootVars => ReadyInv'
  BY ReadyInvNext
<1>3. ReadyInv => ReadyMeansReady
  BY ReadyInvTells
<1> QED
  BY <1>1, <1>2, <1>3, PTL DEF BootSpec
=============================================================================
