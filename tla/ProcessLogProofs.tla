-------------------------- MODULE ProcessLogProofs --------------------------
(***************************************************************************)
(* Theorems about ProcessLog, for a fragment of any size and a stream of   *)
(* any length: NothingLost, CutsDoNotShow and PiecesSound.                 *)
(*                                                                         *)
(* LogInv is inductive.  Its parts need facts about sequences that are     *)
(* built by recursion (FlattenSeq, After); they come by looking at the     *)
(* least place where they could fail (LeastOf), and the last character of  *)
(* a fragment is found likewise (GreatestOf).                              *)
(***************************************************************************)
EXTENDS ProcessLog, WellFoundedInduction, SequenceTheorems, TLAPS

-----------------------------------------------------------------------------
(* Bytes *)

\* Bytes put together in one order or the other.
LEMMA BytesAssociative ==
  ASSUME NEW x \in Seq(Byte), NEW y \in Seq(Byte), NEW z \in Seq(Byte)
  PROVE  (x \o y) \o z = x \o (y \o z)
BY ConcatAssociative

-----------------------------------------------------------------------------
(* Least and greatest numbers *)

\* A set of numbers has a least one.
LEMMA LeastOf ==
  ASSUME NEW T \in SUBSET Nat, T # {}
  PROVE  \E x \in T : \A y \in T : x <= y
<1>1. PICK x \in T : \A y \in T : ~ (<<y, x>> \in OpToRel(<, Nat))
  BY NatLessThanWellFounded, WFMin
<1>2. \A y \in T : y \in Nat /\ x \in Nat /\ ~ (y < x)
  BY <1>1 DEF OpToRel
<1> QED BY <1>2

\* A set of numbers up to n has a greatest one.
LEMMA GreatestOf ==
  ASSUME NEW n \in Nat, NEW T \in SUBSET (1..n), T # {}
  PROVE  \E x \in T : \A y \in T : y <= x
<1> DEFINE U == {u \in Nat : n - u \in T}
<1>1. PICK t \in T : TRUE
  OBVIOUS
<1>2. t \in 1..n
  OBVIOUS
<1>3. n - t \in Nat /\ n - (n - t) = t
  BY <1>2
<1>4. U # {}
  BY <1>3
<1>5. PICK u \in U : \A v \in U : u <= v
  BY <1>4, LeastOf
<1>6. ASSUME NEW y \in T PROVE y <= n - u
  <2>1. y \in 1..n
    OBVIOUS
  <2>2. n - y \in Nat /\ n - (n - y) = y
    BY <2>1
  <2>3. n - y \in U
    BY <2>2
  <2> QED BY <2>1, <2>3, <1>5
<1> QED BY <1>5, <1>6

\* The Min of a set of numbers is one of them, and no greater than another.
LEMMA MinFacts ==
  ASSUME NEW T \in SUBSET Nat, T # {}
  PROVE  Min(T) \in T /\ \A y \in T : Min(T) <= y
BY LeastOf, Zenon DEF Min

\* Likewise the Max, where they are bounded.
LEMMA MaxFacts ==
  ASSUME NEW n \in Nat, NEW T \in SUBSET (1..n), T # {}
  PROVE  Max(T) \in T /\ \A y \in T : y <= Max(T)
<1>1. PICK x \in T : \A y \in T : y <= x
  BY GreatestOf
<1>2. \A y \in T : x >= y
  BY <1>1
<1>3. Max(T) \in T /\ \A y \in T : Max(T) >= y
  BY <1>2, Zenon DEF Max
<1> QED BY <1>3

-----------------------------------------------------------------------------
(* Messages flattened *)

\* There is a function as FlattenSeq defines it.
LEMMA StepsExist ==
  ASSUME NEW S, NEW s \in Seq(Seq(S))
  PROVE  \E f \in [1..Len(s) -> Seq(S)] :
           \A i \in 1..Len(s) : f[i] = IF i = 1 THEN s[i] ELSE f[i - 1] \o s[i]
<1> DEFINE P(n) == \E f \in [1..n -> Seq(S)] :
             \A i \in 1..n : f[i] = IF i = 1 THEN s[i] ELSE f[i - 1] \o s[i]
           T == {n \in 0..Len(s) : ~ P(n)}
<1>0. Len(s) \in Nat
  OBVIOUS
<1> SUFFICES ASSUME ~ P(Len(s)) PROVE FALSE
  OBVIOUS
<1>1. T \in SUBSET Nat
  <2> HIDE DEF P
  <2> QED BY <1>0
<1> HIDE DEF T
<1>00. T # {}
  <2>1. Len(s) \in 0..Len(s)
    BY <1>0
  <2> HIDE DEF P
  <2>2. Len(s) \in T
    BY <2>1 DEF T
  <2> QED BY <2>2
<1>2. PICK n \in T : \A m \in T : n <= m
  BY <1>1, <1>00, LeastOf, Zenon
<1>3. n \in 0..Len(s) /\ ~ P(n)
  BY DEF T
<1>4. CASE n = 0
  <2> DEFINE g == [i \in 1..0 |-> <<>>]
  <2>1. \A i \in 1..0 : g[i] = IF i = 1 THEN s[i] ELSE g[i - 1] \o s[i]
    OBVIOUS
  <2>2. g \in [1..0 -> Seq(S)]
    OBVIOUS
  <2> QED BY <1>3, <1>4, <2>1, <2>2
<1>5. CASE n # 0
  <2>1. n - 1 \in 0..Len(s) /\ n \in 1..Len(s)
    BY <1>3, <1>5, <1>0
  <2>2. n - 1 \notin T
    BY <1>2, <2>1
  <2>3. P(n - 1)
    BY <2>1, <2>2 DEF T
  <2>4. PICK f \in [1..(n - 1) -> Seq(S)] :
          \A i \in 1..(n - 1) : f[i] = IF i = 1 THEN s[i] ELSE f[i - 1] \o s[i]
    BY <2>3
  <2> DEFINE last == IF n = 1 THEN s[n] ELSE f[n - 1] \o s[n]
             g == [i \in 1..n |-> IF i = n THEN last ELSE f[i]]
  <2>5. s[n] \in Seq(S)
    BY <2>1
  <2>6. last \in Seq(S)
    BY <2>1, <2>4, <2>5
  <2> HIDE DEF last
  <2>7. g \in [1..n -> Seq(S)]
    <3>1. ASSUME NEW i \in 1..n, i # n PROVE f[i] \in Seq(S)
      <4>1. i \in 1..(n - 1)
        BY <3>1, <2>1
      <4> QED BY <4>1, <2>4
    <3> QED BY <3>1, <2>6
  <2>8. ASSUME NEW i \in 1..n
        PROVE  g[i] = IF i = 1 THEN s[i] ELSE g[i - 1] \o s[i]
    <3>1. CASE i = n
      BY <3>1, <2>1 DEF last
    <3>2. CASE i # n
      <4>1. i \in 1..(n - 1) /\ (i # 1 => i - 1 \in 1..n /\ i - 1 # n)
        BY <3>2, <2>1
      <4>2. f[i] = IF i = 1 THEN s[i] ELSE f[i - 1] \o s[i]
        BY <2>4, <4>1
      <4>3. g[i] = f[i] /\ (i # 1 => g[i - 1] = f[i - 1])
        BY <4>1, <3>2
      <4> QED BY <4>2, <4>3
    <3> QED BY <3>1, <3>2
  <2> HIDE DEF g
  <2> QED BY <1>3, <2>7, <2>8
<1> QED BY <1>4, <1>5

\* FlattenSeq by its last sequence.
LEMMA FlattenSteps ==
  ASSUME NEW S, NEW s \in Seq(Seq(S)), s # <<>>
  PROVE  \E f \in [1..Len(s) -> Seq(S)] :
           /\ FlattenSeq(s) = f[Len(s)]
           /\ \A i \in 1..Len(s) : f[i] = IF i = 1 THEN s[i] ELSE f[i - 1] \o s[i]
<1>0. Len(s) \in Nat /\ Len(s) # 0
  OBVIOUS
<1> DEFINE D == CHOOSE f : f = [i \in 1..Len(s) |-> IF i = 1 THEN s[i] ELSE f[i - 1] \o s[i]]
<1>1. FlattenSeq(s) = D[Len(s)]
  BY <1>0, Zenon DEF FlattenSeq
<1>2. Len(s) \in 0..Len(s)
  BY <1>0
<1>3. \E f \in [1..Len(s) -> Seq(S)] :
        f = [i \in 1..Len(s) |-> IF i = 1 THEN s[i] ELSE f[i - 1] \o s[i]]
  <2>1. PICK f \in [1..Len(s) -> Seq(S)] :
          \A i \in 1..Len(s) : f[i] = IF i = 1 THEN s[i] ELSE f[i - 1] \o s[i]
    BY StepsExist
  <2>2. f = [i \in 1..Len(s) |-> IF i = 1 THEN s[i] ELSE f[i - 1] \o s[i]]
    BY <2>1
  <2> QED BY <2>2
<1>4. D = [i \in 1..Len(s) |-> IF i = 1 THEN s[i] ELSE D[i - 1] \o s[i]]
  BY <1>3, Zenon
<1> HIDE DEF D
<1>5. \A i \in 1..Len(s) : D[i] = IF i = 1 THEN s[i] ELSE D[i - 1] \o s[i]
  BY <1>4, Zenon
<1> DEFINE T == {i \in 1..Len(s) : D[i] \notin Seq(S)}
<1>6. T = {}
  <2> SUFFICES ASSUME T # {} PROVE FALSE
    OBVIOUS
  <2>1. T \in SUBSET Nat
    BY <1>0
  <2>2. PICK n \in T : \A m \in T : n <= m
    BY <2>1, LeastOf, Zenon
  <2>3. n \in 1..Len(s) /\ s[n] \in Seq(S)
    OBVIOUS
  <2>4. CASE n = 1
    BY <2>3, <2>4, <1>5
  <2>5. CASE n # 1
    <3>1. n - 1 \in 1..Len(s) /\ ~ (n <= n - 1)
      BY <2>3, <2>5, <1>0
    <3>2. D[n - 1] \in Seq(S)
      BY <3>1, <2>2
    <3>3. D[n] = D[n - 1] \o s[n]
      BY <2>3, <2>5, <1>5
    <3>4. D[n] \in Seq(S)
      BY <3>2, <3>3, <2>3
    <3> QED BY <3>4
  <2> QED BY <2>4, <2>5
<1>7. \A i \in 1..Len(s) : D[i] \in Seq(S)
  BY <1>6
<1>8. D \in [1..Len(s) -> Seq(S)]
  BY <1>4, <1>7
<1> QED BY <1>1, <1>5, <1>8

\* Nothing flattened is nothing; a sequence at the end comes at the end.
LEMMA FlattenAppend ==
  ASSUME NEW S, NEW s \in Seq(Seq(S)), NEW x \in Seq(S)
  PROVE  /\ FlattenSeq(<<>>) = <<>>
         /\ FlattenSeq(s) \in Seq(S)
         /\ FlattenSeq(Append(s, x)) = FlattenSeq(s) \o x
<1>1. FlattenSeq(<<>>) = <<>>
  BY DEF FlattenSeq
<1>2. FlattenSeq(s) \in Seq(S)
  <2>1. CASE s = <<>>
    BY <2>1, <1>1, EmptySeq
  <2>2. CASE s # <<>>
    <3>1. Len(s) \in 1..Len(s)
      BY <2>2
    <3>2. PICK f \in [1..Len(s) -> Seq(S)] : FlattenSeq(s) = f[Len(s)]
      BY <2>2, FlattenSteps
    <3> QED BY <3>1, <3>2
  <2> QED BY <2>1, <2>2
<1> DEFINE t == Append(s, x)
<1>3. t \in Seq(Seq(S)) /\ t # <<>> /\ Len(t) = Len(s) + 1 /\ Len(s) \in Nat
  BY AppendProperties, LenProperties
<1>4. \A i \in 1..Len(s) : t[i] = s[i]
  OBVIOUS
<1>5. t[Len(t)] = x
  OBVIOUS
<1> HIDE DEF t
<1>6. PICK f \in [1..Len(t) -> Seq(S)] :
        /\ FlattenSeq(t) = f[Len(t)]
        /\ \A i \in 1..Len(t) : f[i] = IF i = 1 THEN t[i] ELSE f[i - 1] \o t[i]
  BY <1>3, FlattenSteps
<1>7. CASE s = <<>>
  <2>1. Len(t) = 1 /\ FlattenSeq(t) = x
    BY <1>3, <1>5, <1>6, <1>7
  <2> QED BY <2>1, <1>1, <1>2, <1>7, ConcatEmptySeq DEF t
<1>8. CASE s # <<>>
  <2>1. PICK g \in [1..Len(s) -> Seq(S)] :
          /\ FlattenSeq(s) = g[Len(s)]
          /\ \A i \in 1..Len(s) : g[i] = IF i = 1 THEN s[i] ELSE g[i - 1] \o s[i]
    BY <1>8, FlattenSteps
  <2>2. Len(s) # 0
    BY <1>8
  <2> DEFINE T == {i \in 1..Len(s) : f[i] # g[i]}
  <2>3. T = {}
    <3> SUFFICES ASSUME T # {} PROVE FALSE
      OBVIOUS
    <3>1. T \in SUBSET Nat
      BY <1>3
    <3>2. PICK n \in T : \A m \in T : n <= m
      BY <3>1, LeastOf, Zenon
    <3>3. n \in 1..Len(s) /\ n \in 1..Len(t)
      BY <1>3
    <3>4. CASE n = 1
      BY <3>3, <3>4, <1>4, <1>6, <2>1
    <3>5. CASE n # 1
      <4>1. n - 1 \in 1..Len(s) /\ ~ (n <= n - 1)
        BY <3>3, <3>5, <1>3
      <4>2. f[n - 1] = g[n - 1]
        BY <4>1, <3>2
      <4>3. f[n] = f[n - 1] \o t[n] /\ g[n] = g[n - 1] \o s[n]
        BY <3>3, <3>5, <1>6, <2>1
      <4> QED BY <3>3, <4>2, <4>3, <1>4
    <3> QED BY <3>4, <3>5
  <2>4. Len(s) \in 1..Len(s)
    BY <1>3, <2>2
  <2>5. f[Len(s)] = g[Len(s)]
    BY <2>3, <2>4
  <2>6. f[Len(t)] = f[Len(s)] \o x
    <3>1. Len(t) \in 1..Len(t) /\ Len(t) # 1 /\ Len(t) - 1 = Len(s)
      BY <1>3, <2>2
    <3> QED BY <1>5, <1>6, <3>1
  <2> QED BY <1>1, <1>2, <1>6, <2>1, <2>5, <2>6 DEF t
<1> QED BY <1>7, <1>8

-----------------------------------------------------------------------------
(* Messages, fragments, rounds *)

\* All bytes but the last one.
LEMMA FrontFacts ==
  ASSUME NEW bytes \in Seq(Byte), bytes # <<>>
  PROVE  LET front == SubSeq(bytes, 1, Len(bytes) - 1)
         IN /\ front \in Seq(Byte) /\ Len(front) = Len(bytes) - 1
            /\ \A k \in 1..(Len(bytes) - 1) : front[k] = bytes[k]
<1> DEFINE front == SubSeq(bytes, 1, Len(bytes) - 1)
<1>0. Len(bytes) \in Nat /\ Len(bytes) > 0
  OBVIOUS
<1>1. \A k \in 1..(Len(bytes) - 1) : bytes[k] \in Byte
  BY <1>0
<1>2. 1 \in Int /\ Len(bytes) - 1 \in Int
  BY <1>0
<1>3. /\ front \in Seq(Byte)
      /\ Len(front) = IF 1 <= Len(bytes) - 1 THEN Len(bytes) - 1 - 1 + 1 ELSE 0
      /\ \A k \in 1..(Len(bytes) - 1 - 1 + 1) : front[k] = bytes[1 + k - 1]
  BY <1>1, <1>2, SubSeqProperties
<1> HIDE DEF front
<1>4. Len(front) = Len(bytes) - 1
  <2>1. CASE Len(bytes) > 1
    <3>0. 1 <= Len(bytes) - 1
      BY <1>0, <2>1
    <3>1. Len(front) = Len(bytes) - 1 - 1 + 1
      BY <1>3, <3>0
    <3> QED BY <1>0, <3>1
  <2>2. CASE Len(bytes) = 1
    BY <1>3, <2>2
  <2>3. Len(bytes) = 1 \/ Len(bytes) > 1
    <3>1. \A n \in Nat : n > 0 => n = 1 \/ n > 1
      OBVIOUS
    <3> QED BY <1>0, <3>1
  <2> QED BY <2>1, <2>2, <2>3
<1>5. ASSUME NEW k \in 1..(Len(bytes) - 1) PROVE front[k] = bytes[k]
  <2>1. k \in 1..(Len(bytes) - 1 - 1 + 1) /\ 1 + k - 1 = k
    BY <1>0
  <2> QED BY <2>1, <1>3
<1> QED BY <1>3, <1>4, <1>5 DEF front

\* A message is what was pending, its newline put back.
LEMMA MessageFacts ==
  ASSUME NEW bytes \in Seq(Byte)
  PROVE  /\ Message(bytes) \in Text
         /\ Original(Message(bytes)) = bytes
         /\ Message(bytes).text = IF bytes # <<>> /\ Last(bytes) = "nl"
                                  THEN SubSeq(bytes, 1, Len(bytes) - 1) ELSE bytes
         /\ Len(Message(bytes).text) <= Len(bytes)
<1>1. CASE bytes # <<>> /\ Last(bytes) = "nl"
  <2> DEFINE front == SubSeq(bytes, 1, Len(bytes) - 1)
  <2>1. Len(bytes) \in Nat /\ Len(bytes) > 0
    BY <1>1
  <2>2. front \in Seq(Byte) /\ Len(front) = Len(bytes) - 1
        /\ \A k \in 1..(Len(bytes) - 1) : front[k] = bytes[k]
    BY <1>1, FrontFacts
  <2>3. Message(bytes) = [text |-> front, nl |-> TRUE]
    BY <1>1 DEF Message, Front
  <2> HIDE DEF front
  <2>4. "nl" \in Byte
    BY DEF Byte
  <2>5. Append(front, "nl") \in Seq(Byte) /\ Len(Append(front, "nl")) = Len(bytes)
    BY <2>1, <2>2, <2>4
  <2>6. \A k \in 1..Len(bytes) : Append(front, "nl")[k] = bytes[k]
    BY <1>1, <2>1, <2>2 DEF Last
  <2>7. Append(front, "nl") = bytes
    BY <2>5, <2>6, SeqEqual
  <2> QED BY <1>1, <2>1, <2>2, <2>3, <2>7 DEF Original, Text, front
<1>2. CASE ~ (bytes # <<>> /\ Last(bytes) = "nl")
  BY <1>2 DEF Message, Original, Text
<1> QED BY <1>1, <1>2

\* What the messages of o say.
SaidOf(o) == FlattenSeq([n \in DOMAIN o |-> Original(o[n])])

\* One more message is said after the others.
LEMMA SaidAppend ==
  ASSUME NEW sent \in Seq(Text), NEW m \in Text
  PROVE  /\ SaidOf(<<>>) = <<>>
         /\ SaidOf(sent) \in Seq(Byte)
         /\ SaidOf(Append(sent, m)) = SaidOf(sent) \o Original(m)
<1> DEFINE s == [n \in DOMAIN sent |-> Original(sent[n])]
           t == [n \in DOMAIN Append(sent, m) |-> Original(Append(sent, m)[n])]
<1>1. \A o \in Text : Original(o) \in Seq(Byte)
  BY DEF Original, Text, Byte
<1>2. Len(sent) \in Nat /\ DOMAIN sent = 1..Len(sent)
  OBVIOUS
<1>3. DOMAIN Append(sent, m) = 1..(Len(sent) + 1)
  OBVIOUS
<1>4. s \in Seq(Seq(Byte)) /\ Len(s) = Len(sent)
  <2>1. s = [n \in 1..Len(sent) |-> Original(sent[n])]
    BY <1>2
  <2>2. \A n \in 1..Len(sent) : Original(sent[n]) \in Seq(Byte)
    BY <1>1
  <2>3. s \in [1..Len(sent) -> Seq(Byte)]
    BY <2>1, <2>2
  <2> QED BY <1>2, <2>3
<1>5. t = Append(s, Original(m))
  <2>1. t \in [1..(Len(sent) + 1) -> Seq(Byte)]
    BY <1>1, <1>2, <1>3
  <2>2. t \in Seq(Seq(Byte)) /\ Len(t) = Len(sent) + 1
    BY <1>2, <2>1
  <2>3. \A n \in 1..(Len(sent) + 1) : t[n] = Append(s, Original(m))[n]
    BY <1>1, <1>2, <1>3, <1>4
  <2>4. Append(s, Original(m)) \in Seq(Seq(Byte)) /\ Len(Append(s, Original(m))) = Len(sent) + 1
    BY <1>1, <1>4
  <2> QED BY <2>2, <2>3, <2>4, SeqEqual
<1>6. [n \in DOMAIN <<>> |-> Original(<<>>[n])] = <<>>
  OBVIOUS
<1>7. Original(m) \in Seq(Byte)
  BY <1>1
<1> HIDE DEF s, t
<1>8. /\ FlattenSeq(<<>>) = <<>>
      /\ FlattenSeq(s) \in Seq(Byte)
      /\ FlattenSeq(t) = FlattenSeq(s) \o Original(m)
  BY <1>4, <1>5, <1>7, FlattenAppend
<1> QED BY <1>6, <1>8 DEF s, t, SaidOf

\* What is said are bytes.
LEMMA SaidTyped ==
  ASSUME NEW sent \in Seq(Text)
  PROVE  SaidOf(sent) \in Seq(Byte)
<1>1. [text |-> <<>>, nl |-> FALSE] \in Text
  BY DEF Text
<1> QED BY <1>1, SaidAppend

\* The last character begins at a byte that begins one, or at the first; after it there
\* are only continuations.
LEMMA LastStartFacts ==
  ASSUME NEW bytes \in Seq(Byte), bytes # <<>>
  PROVE  /\ LastStart(bytes) \in 1..Len(bytes)
         /\ LastStart(bytes) # 1 => bytes[LastStart(bytes)] # "cont"
         /\ \A k \in (LastStart(bytes) + 1)..Len(bytes) : bytes[k] = "cont"
<1> DEFINE T == {1} \cup {n \in DOMAIN bytes : bytes[n] # "cont"}
<1>1. Len(bytes) \in Nat /\ Len(bytes) > 0 /\ DOMAIN bytes = 1..Len(bytes)
  OBVIOUS
<1>2. T \in SUBSET (1..Len(bytes)) /\ T # {}
  BY <1>1
<1>3. LastStart(bytes) = Max(T)
  BY DEF LastStart
<1>4. Max(T) \in T /\ \A y \in T : y <= Max(T)
  BY <1>1, <1>2, MaxFacts
<1>5. ASSUME NEW k \in (Max(T) + 1)..Len(bytes) PROVE bytes[k] = "cont"
  <2>1. Max(T) \in 1..Len(bytes)
    BY <1>2, <1>4
  <2>2. k \in 1..Len(bytes) /\ ~ (k <= Max(T))
    BY <1>1, <2>1
  <2>3. k \notin T
    BY <1>4, <2>2
  <2> QED BY <2>2, <2>3, <1>1
<1>6. Max(T) # 1 => bytes[Max(T)] # "cont"
  BY <1>4
<1> QED BY <1>2, <1>3, <1>4, <1>5, <1>6

\* A full fragment of a line is the message and the rest; the rest is less than a
\* character, and begins with the character's first byte.
LEMMA FragmentFacts ==
  ASSUME NEW bytes \in Seq(Byte), Len(bytes) = Size, Last(bytes) # "nl"
  PROVE  LET m == Fragment(bytes).message
             rest == Fragment(bytes).rest
             last == LastStart(bytes)
         IN /\ m \in Text
            /\ rest \in Seq(Byte) /\ Len(rest) < 3
            /\ Original(m) \o rest = bytes
            /\ Len(m.text) <= Size
            /\ FullRune(SubSeq(bytes, last, Len(bytes))) => m = Message(bytes) /\ rest = <<>>
            /\ ~ FullRune(SubSeq(bytes, last, Len(bytes))) =>
                 /\ last > 1
                 /\ m = Message(SubSeq(bytes, 1, last - 1))
                 /\ rest = SubSeq(bytes, last, Len(bytes))
<1> DEFINE last == LastStart(bytes)
           tail == SubSeq(bytes, last, Len(bytes))
           head == SubSeq(bytes, 1, last - 1)
           n == Len(bytes)
<1>1. n \in Nat /\ n > 3 /\ bytes # <<>> /\ n = Size
  BY SizeAssumption
<1>2. last \in 1..n
  BY <1>1, LastStartFacts
<1> HIDE DEF last
<1>3. tail \in Seq(Byte) /\ Len(tail) = n - last + 1
  BY <1>1, <1>2
<1>4. head \in Seq(Byte) /\ Len(head) = last - 1
  BY <1>1, <1>2
<1>5. head \o tail = bytes
  <2>1. last - 1 \in 1 - 1..Len(bytes) /\ Len(bytes) \in last - 1..Len(bytes) /\ 1 \in 1..Len(bytes) + 1
    BY <1>1, <1>2
  <2>2. SubSeq(bytes, 1, last - 1) \o SubSeq(bytes, last - 1 + 1, Len(bytes)) = SubSeq(bytes, 1, Len(bytes))
    BY <2>1, ConcatAdjacentSubSeq
  <2>3. last - 1 + 1 = last /\ SubSeq(bytes, 1, Len(bytes)) = bytes
    BY <1>2, SubSeqFull
  <2> QED BY <2>2, <2>3
<1>6. Message(bytes) \in Text /\ Original(Message(bytes)) = bytes
      /\ Len(Message(bytes).text) <= n
  BY MessageFacts
<1>7. Message(head) \in Text /\ Original(Message(head)) = head
      /\ Len(Message(head).text) <= last - 1
  BY <1>4, MessageFacts
<1>8. CASE FullRune(tail)
  <2>1. Fragment(bytes) = [message |-> Message(bytes), rest |-> <<>>]
    BY <1>8 DEF Fragment, last
  <2> QED BY <1>1, <1>6, <1>8, <2>1 DEF last
<1>9. CASE ~ FullRune(tail)
  <2>1. Fragment(bytes) = [message |-> Message(head), rest |-> tail]
    BY <1>9 DEF Fragment, last
  <2>2. Len(tail) < 3
    <3>1. tail = <<>> \/ tail = <<"lead2">> \/ tail = <<"lead3">> \/ tail = <<"lead3", "cont">>
      BY <1>9 DEF FullRune
    <3>2. Len(<<>>) = 0 /\ Len(<<"lead2">>) = 1 /\ Len(<<"lead3">>) = 1 /\ Len(<<"lead3", "cont">>) = 2
      OBVIOUS
    <3> HIDE DEF tail
    <3>3. CASE tail = <<>> BY <3>3, <3>2
    <3>4. CASE tail = <<"lead2">> BY <3>4, <3>2
    <3>5. CASE tail = <<"lead3">> BY <3>5, <3>2
    <3>6. CASE tail = <<"lead3", "cont">> BY <3>6, <3>2
    <3> QED BY <3>1, <3>3, <3>4, <3>5, <3>6
  <2>3. last > 1
    BY <1>1, <1>2, <1>3, <2>2
  <2>4. Len(Message(head).text) <= Size
    <3>1. Len(Message(head).text) \in Nat
      BY <1>7 DEF Text
    <3> QED BY <3>1, <1>1, <1>2, <1>7
  <2>5. Fragment(bytes).message = Message(head) /\ Fragment(bytes).rest = tail
    <3> HIDE DEF head, tail
    <3> QED BY <2>1
  <2>6. Original(Message(head)) \o tail = bytes
    BY <1>5, <1>7
  <2> HIDE DEF head, tail
  <2>7. /\ Fragment(bytes).message \in Text
        /\ Fragment(bytes).rest \in Seq(Byte) /\ Len(Fragment(bytes).rest) < 3
        /\ Original(Fragment(bytes).message) \o Fragment(bytes).rest = bytes
        /\ Len(Fragment(bytes).message.text) <= Size
    BY <1>3, <1>7, <2>2, <2>4, <2>5, <2>6
  <2> QED BY <1>9, <2>3, <2>5, <2>7 DEF last, head, tail
<1> QED BY <1>8, <1>9

\* What one round takes: at least a byte, at most what there is room for, no newline
\* but as the last one, and everything if it ends neither a line nor a fragment.
LEMMA TakenFacts ==
  ASSUME NEW begun \in Seq(Byte), NEW more \in Seq(Byte), Len(begun) < Size, more # <<>>
  PROVE  LET n == Taken(begun, more)
         IN /\ n \in 1..Len(more)
            /\ Len(begun) + n <= Size
            /\ \A k \in 1..(n - 1) : more[k] # "nl"
            /\ more[n] = "nl" \/ Len(begun) + n = Size \/ n = Len(more)
<1> DEFINE pair == {Len(more), Size - Len(begun)}
           limit == Min(pair)
           newlines == {n \in 1..limit : more[n] = "nl"}
<1>1. Len(more) \in Nat /\ Len(more) > 0 /\ Len(begun) \in Nat /\ Size \in Nat
  BY SizeAssumption
<1>2. pair \in SUBSET Nat /\ pair # {}
  BY <1>1
<1>3. limit \in pair /\ \A y \in pair : limit <= y
  BY <1>2, MinFacts
<1> HIDE DEF limit
<1>4. limit \in 1..Len(more) /\ Len(begun) + limit <= Size
      /\ (Len(begun) + limit = Size \/ limit = Len(more))
  BY <1>1, <1>3
<1>5. Taken(begun, more) = IF newlines = {} THEN limit ELSE Min(newlines)
  BY DEF Taken, limit
<1>6. CASE newlines = {}
  <2>1. \A k \in 1..limit : more[k] # "nl"
    BY <1>6
  <2> QED BY <1>4, <1>5, <1>6, <2>1, <1>1
<1>7. CASE newlines # {}
  <2>1. newlines \in SUBSET Nat
    OBVIOUS
  <2>2. Min(newlines) \in newlines /\ \A y \in newlines : Min(newlines) <= y
    BY <1>7, <2>1, MinFacts
  <2>3. Min(newlines) \in 1..limit /\ more[Min(newlines)] = "nl"
    BY <2>2
  <2>4. ASSUME NEW k \in 1..(Min(newlines) - 1) PROVE more[k] # "nl"
    <3>1. k \in 1..limit /\ ~ (Min(newlines) <= k)
      BY <2>3, <1>4
    <3> QED BY <2>2, <3>1
  <2>5. Taken(begun, more) = Min(newlines)
    BY <1>5, <1>7
  <2> HIDE DEF newlines
  <2> QED BY <1>1, <1>4, <2>3, <2>4, <2>5
<1> QED BY <1>6, <1>7

-----------------------------------------------------------------------------
(* Characters that are not split *)

\* How many continuations a first byte asks for.
LEMMA ContinuationFacts ==
  /\ Continuations["nl"] = 0 /\ Continuations["x"] = 0
  /\ Continuations["lead2"] = 1 /\ Continuations["lead3"] = 2
  /\ \A b \in Byte : b # "cont" => Continuations[b] \in 0..2
BY DEF Continuations, Byte

\* UTF-8 cut short is UTF-8, as far as it goes.
LEMMA UnicodePrefix ==
  ASSUME NEW s \in Seq(Byte), NEW t \in Seq(Byte), Unicode(s),
         Len(t) <= Len(s), \A k \in 1..Len(t) : t[k] = s[k]
  PROVE  Unicode(t)
<1>1. /\ Len(s) \in Nat /\ Len(t) \in Nat
      /\ DOMAIN s = 1..Len(s) /\ DOMAIN t = 1..Len(t) /\ DOMAIN t \subseteq DOMAIN s
  OBVIOUS
<1>2. t # <<>> => t[1] # "cont"
  <2>1. ASSUME t # <<>> PROVE 1 \in 1..Len(t) /\ s # <<>>
    BY <2>1, <1>1
  <2> QED BY <2>1 DEF Unicode
<1>3. ASSUME NEW n \in DOMAIN t, t[n] # "cont"
      PROVE  LET after == n + Continuations[t[n]]
             IN /\ \A k \in DOMAIN t : k \in (n + 1)..after => t[k] = "cont"
                /\ after + 1 \in DOMAIN t => t[after + 1] # "cont"
  <2>1. n \in DOMAIN s /\ s[n] = t[n]
    BY <1>1
  <2> DEFINE after == n + Continuations[t[n]]
  <2>2. /\ \A k \in DOMAIN s : k \in (n + 1)..after => s[k] = "cont"
        /\ after + 1 \in DOMAIN s => s[after + 1] # "cont"
    BY <2>1, <1>3 DEF Unicode
  <2> HIDE DEF after
  <2>3. /\ \A k \in DOMAIN t : k \in (n + 1)..after => t[k] = "cont"
        /\ after + 1 \in DOMAIN t => t[after + 1] # "cont"
    BY <2>2, <1>1
  <2> QED BY <2>3 DEF after
<1> QED BY <1>2, <1>3 DEF Unicode

\* Whole is UTF-8 that has all continuations of all its characters.
LEMMA WholeMeans ==
  ASSUME NEW s \in Seq(Byte)
  PROVE  Whole(s) <=> /\ Unicode(s)
                      /\ \A n \in 1..Len(s) : s[n] # "cont" => n + Continuations[s[n]] <= Len(s)
<1> DEFINE w == Append(s, "x")
           after(n) == n + Continuations[s[n]]
<1>1. w \in Seq(Byte) /\ Len(w) = Len(s) + 1 /\ Len(s) \in Nat
      /\ DOMAIN w = 1..(Len(s) + 1) /\ DOMAIN s = 1..Len(s)
  BY DEF Byte
<1>2. (\A k \in 1..Len(s) : w[k] = s[k]) /\ w[Len(s) + 1] = "x"
  OBVIOUS
<1>3. Whole(s) <=> Unicode(w)
  BY DEF Whole
<1> HIDE DEF w
<1>4. ASSUME NEW n \in 1..Len(s), s[n] # "cont"
      PROVE  after(n) \in n..(n + 2) /\ w[n] = s[n] /\ n \in DOMAIN w
  <2>1. s[n] \in Byte
    OBVIOUS
  <2>2. Continuations[s[n]] \in 0..2
    BY <2>1, <1>4, ContinuationFacts
  <2> QED BY <2>2, <1>1, <1>2
<1>5. ASSUME Unicode(w) PROVE Unicode(s)
  BY <1>1, <1>2, <1>5, UnicodePrefix
<1>6. ASSUME Unicode(w), NEW n \in 1..Len(s), s[n] # "cont" PROVE after(n) <= Len(s)
  <2>1. \A k \in DOMAIN w : k \in (n + 1)..after(n) => w[k] = "cont"
    BY <1>4, <1>6 DEF Unicode
  <2>2. ~ (Len(s) + 1 \in (n + 1)..after(n))
    BY <2>1, <1>1, <1>2
  <2> HIDE DEF after
  <2> QED BY <2>2, <1>1, <1>4, <1>6
<1>7. ASSUME Unicode(s), \A n \in 1..Len(s) : s[n] # "cont" => after(n) <= Len(s)
      PROVE  Unicode(w)
  <2>1. w[1] # "cont"
    <3>1. CASE Len(s) = 0
      BY <3>1, <1>2
    <3>2. CASE Len(s) # 0
      <4>1. 1 \in 1..Len(s) /\ s # <<>>
        BY <3>2, <1>1
      <4> QED BY <4>1, <1>2, <1>7 DEF Unicode
    <3> QED BY <3>1, <3>2
  <2>2. ASSUME NEW n \in DOMAIN w, w[n] # "cont"
        PROVE  /\ \A k \in DOMAIN w : k \in (n + 1)..(n + Continuations[w[n]]) => w[k] = "cont"
               /\ n + Continuations[w[n]] + 1 \in DOMAIN w => w[n + Continuations[w[n]] + 1] # "cont"
    <3>1. CASE n = Len(s) + 1
      BY <3>1, <1>1, <1>2, ContinuationFacts
    <3>2. CASE n # Len(s) + 1
      <4>1. n \in 1..Len(s) /\ n \in DOMAIN s
        BY <3>2, <1>1
      <4>2. w[n] = s[n] /\ after(n) = n + Continuations[w[n]]
            /\ after(n) \in n..(n + 2) /\ after(n) <= Len(s)
        BY <4>1, <2>2, <1>2, <1>4, <1>7
      <4>3. /\ \A k \in DOMAIN s : k \in (n + 1)..after(n) => s[k] = "cont"
            /\ after(n) + 1 \in DOMAIN s => s[after(n) + 1] # "cont"
        BY <4>1, <4>2, <2>2, <1>7 DEF Unicode
      <4> HIDE DEF after
      <4>4. ASSUME NEW k \in DOMAIN w, k \in (n + 1)..after(n) PROVE w[k] = "cont"
        <5>1. k \in DOMAIN s /\ w[k] = s[k]
          BY <4>1, <4>2, <4>4, <1>1, <1>2
        <5> QED BY <5>1, <4>3, <4>4
      <4>5. ASSUME after(n) + 1 \in DOMAIN w PROVE w[after(n) + 1] # "cont"
        <5>1. CASE after(n) = Len(s)
          BY <5>1, <1>2
        <5>2. CASE after(n) # Len(s)
          <6>1. after(n) + 1 \in 1..Len(s)
            BY <5>2, <4>1, <4>2, <1>1
          <6> QED BY <6>1, <4>3, <1>1, <1>2
        <5> QED BY <5>1, <5>2
      <4> QED BY <4>2, <4>4, <4>5
    <3> QED BY <3>1, <3>2
  <2> QED BY <2>1, <2>2 DEF Unicode
<1> QED BY <1>3, <1>5, <1>6, <1>7

\* A continuation continues a character.
LEMMA ContinuesSome ==
  ASSUME NEW s \in Seq(Byte), Unicode(s), NEW p \in 1..Len(s), s[p] = "cont"
  PROVE  \E n \in 1..(p - 1) : s[n] # "cont" /\ p <= n + Continuations[s[n]]
<1> DEFINE T == {n \in 1..(p - 1) : s[n] # "cont"}
<1>1. Len(s) \in Nat /\ DOMAIN s = 1..Len(s) /\ p - 1 \in Nat
  OBVIOUS
<1>2. T # {}
  <2>1. s # <<>> /\ s[1] # "cont"
    BY <1>1 DEF Unicode
  <2>2. 1 \in 1..(p - 1)
    BY <2>1, <1>1
  <2> QED BY <2>1, <2>2
<1>3. PICK n \in T : \A y \in T : y <= n
  BY <1>1, <1>2, GreatestOf
<1>4. n \in 1..(p - 1) /\ n \in DOMAIN s /\ s[n] # "cont"
  BY <1>1
<1> DEFINE after == n + Continuations[s[n]]
<1>5. after \in n..(n + 2)
  <2>1. s[n] \in Byte
    BY <1>1, <1>4
  <2>2. Continuations[s[n]] \in 0..2
    BY <2>1, <1>4, ContinuationFacts
  <2> QED BY <2>2, <1>4
<1>6. after + 1 \in DOMAIN s => s[after + 1] # "cont"
  BY <1>4 DEF Unicode
<1> HIDE DEF after
<1>7. ASSUME ~ (p <= after) PROVE FALSE
  <2>1. after + 1 \in 1..p /\ after + 1 \in DOMAIN s /\ n + 1 <= after + 1
    BY <1>1, <1>4, <1>5, <1>7
  <2>2. after + 1 # p
    BY <2>1, <1>6
  <2>3. after + 1 \in T
    BY <2>1, <2>2, <1>1, <1>6
  <2> QED BY <2>1, <2>3, <1>3, <1>4, <1>5
<1> QED BY <1>4, <1>7 DEF after

\* A cut before a first byte splits no character.
LEMMA CutBefore ==
  ASSUME NEW s \in Seq(Byte), NEW t \in Seq(Byte), Unicode(s),
         Len(t) < Len(s), \A k \in 1..Len(t) : t[k] = s[k],
         s[Len(t) + 1] # "cont"
  PROVE  Whole(t)
<1>1. Len(s) \in Nat /\ Len(t) \in Nat /\ DOMAIN s = 1..Len(s) /\ Len(t) <= Len(s)
  OBVIOUS
<1>2. Unicode(t)
  BY <1>1, UnicodePrefix
<1>3. ASSUME NEW n \in 1..Len(t), t[n] # "cont"
      PROVE  n + Continuations[t[n]] <= Len(t)
  <2> DEFINE after == n + Continuations[t[n]]
  <2>1. t[n] \in Byte /\ n \in DOMAIN s /\ s[n] = t[n]
    BY <1>1
  <2>2. after \in n..(n + 2)
    BY <2>1, <1>3, ContinuationFacts
  <2>3. \A k \in DOMAIN s : k \in (n + 1)..after => s[k] = "cont"
    BY <2>1, <1>3 DEF Unicode
  <2>4. Len(t) + 1 \in DOMAIN s
    BY <1>1
  <2>5. ~ (Len(t) + 1 \in (n + 1)..after)
    BY <2>3, <2>4
  <2> HIDE DEF after
  <2>6. after <= Len(t)
    BY <2>2, <2>5, <1>1
  <2> QED BY <2>6 DEF after
<1> QED BY <1>2, <1>3, WholeMeans

\* Nor does one after a newline.
LEMMA CutNewline ==
  ASSUME NEW t \in Seq(Byte), Unicode(t), t # <<>>, Last(t) = "nl"
  PROVE  Whole(t)
<1>1. Len(t) \in Nat /\ Len(t) \in DOMAIN t /\ t[Len(t)] = "nl"
  BY DEF Last
<1>2. ASSUME NEW n \in 1..Len(t), t[n] # "cont"
      PROVE  n + Continuations[t[n]] <= Len(t)
  <2> DEFINE after == n + Continuations[t[n]]
  <2>1. t[n] \in Byte /\ n \in DOMAIN t
    OBVIOUS
  <2>2. after \in n..(n + 2)
    BY <2>1, <1>2, ContinuationFacts
  <2>3. \A k \in DOMAIN t : k \in (n + 1)..after => t[k] = "cont"
    BY <2>1, <1>2 DEF Unicode
  <2>4. ~ (Len(t) \in (n + 1)..after)
    BY <2>3, <1>1
  <2>5. n = Len(t) => after = n
    BY <1>1, ContinuationFacts
  <2> HIDE DEF after
  <2>6. after <= Len(t)
    BY <2>2, <2>4, <2>5, <1>1
  <2> QED BY <2>6 DEF after
<1> QED BY <1>2, WholeMeans

\* Nor one after a character that counts as full: its continuations are all there.
LEMMA CutFull ==
  ASSUME NEW t \in Seq(Byte), Unicode(t), NEW last \in 1..Len(t), t[last] # "cont",
         \A k \in (last + 1)..Len(t) : t[k] = "cont",
         FullRune(SubSeq(t, last, Len(t)))
  PROVE  Whole(t)
<1> DEFINE tail == SubSeq(t, last, Len(t))
           end == last + Continuations[t[last]]
<1>1. Len(t) \in Nat /\ DOMAIN t = 1..Len(t) /\ t[last] \in Byte
  OBVIOUS
<1>2. end \in last..(last + 2)
  BY <1>1, ContinuationFacts
<1>3. end + 1 \in DOMAIN t => t[end + 1] # "cont"
  BY <1>1 DEF Unicode
<1>4. tail \in Seq(Byte) /\ Len(tail) = Len(t) - last + 1
      /\ (\A k \in 1..(Len(t) - last + 1) : tail[k] = t[last + k - 1])
  BY <1>1
<1>5. tail # <<"lead2">> /\ tail # <<"lead3">> /\ tail # <<"lead3", "cont">>
  BY DEF FullRune
<1> HIDE DEF tail
<1>6. Len(t) <= end
  <2> HIDE DEF end
  <2> SUFFICES ASSUME ~ (Len(t) <= end) PROVE FALSE
    OBVIOUS
  <2>1. end + 1 \in (last + 1)..Len(t) /\ end + 1 \in DOMAIN t
    BY <1>1, <1>2
  <2> QED BY <2>1, <1>3
<1>7. end <= Len(t)
  <2>1. CASE Continuations[t[last]] = 0
    BY <2>1, <1>1
  <2>2. CASE Continuations[t[last]] = 1
    <3>1. t[last] = "lead2"
      BY <2>2, <1>1, ContinuationFacts DEF Byte
    <3>2. CASE last = Len(t)
      <4>1. Len(tail) = 1 /\ tail[1] = "lead2"
        BY <3>1, <3>2, <1>1, <1>4
      <4>2. <<"lead2">> \in Seq(Byte) /\ Len(<<"lead2">>) = 1 /\ <<"lead2">>[1] = "lead2"
        BY DEF Byte
      <4>3. tail = <<"lead2">>
        BY <4>1, <4>2, <1>4, SeqEqual
      <4> QED BY <4>3, <1>5
    <3>3. CASE last # Len(t)
      <4>1. \A n \in Nat : last <= n /\ last # n => last + 1 <= n
        OBVIOUS
      <4>2. last <= Len(t)
        BY <1>1
      <4>3. last + 1 <= Len(t)
        BY <4>1, <4>2, <3>3, <1>1
      <4> QED BY <4>3, <2>2
    <3> QED BY <3>2, <3>3
  <2>3. CASE Continuations[t[last]] = 2
    <3>1. t[last] = "lead3"
      BY <2>3, <1>1, ContinuationFacts DEF Byte
    <3>2. CASE last = Len(t)
      <4>1. Len(tail) = 1 /\ tail[1] = "lead3"
        BY <3>1, <3>2, <1>1, <1>4
      <4>2. <<"lead3">> \in Seq(Byte) /\ Len(<<"lead3">>) = 1 /\ <<"lead3">>[1] = "lead3"
        BY DEF Byte
      <4>3. tail = <<"lead3">>
        BY <4>1, <4>2, <1>4, SeqEqual
      <4> QED BY <4>3, <1>5
    <3>3. CASE last + 1 = Len(t)
      <4>1. Len(tail) = 2 /\ tail[1] = "lead3" /\ tail[2] = "cont"
        BY <3>1, <3>3, <1>1, <1>4
      <4>2. <<"lead3", "cont">> \in Seq(Byte) /\ Len(<<"lead3", "cont">>) = 2
            /\ <<"lead3", "cont">>[1] = "lead3" /\ <<"lead3", "cont">>[2] = "cont"
        BY DEF Byte
      <4>3. \A k \in 1..Len(tail) : tail[k] = <<"lead3", "cont">>[k]
        BY <4>1, <4>2
      <4>4. tail = <<"lead3", "cont">>
        BY <4>1, <4>2, <4>3, <1>4, SeqEqual
      <4> QED BY <4>4, <1>5
    <3>4. CASE last # Len(t) /\ last + 1 # Len(t)
      <4>1. \A n \in Nat : last <= n /\ last # n /\ last + 1 # n => last + 2 <= n
        OBVIOUS
      <4>2. last <= Len(t)
        BY <1>1
      <4>3. last + 2 <= Len(t)
        BY <4>1, <4>2, <3>4, <1>1
      <4> QED BY <4>3, <2>3
    <3> QED BY <3>2, <3>3, <3>4
  <2>4. Continuations[t[last]] \in 0..2
    BY <1>1, ContinuationFacts
  <2> QED BY <2>1, <2>2, <2>3, <2>4
<1>8. ASSUME NEW n \in 1..Len(t), t[n] # "cont"
      PROVE  n + Continuations[t[n]] <= Len(t)
  <2> DEFINE after == n + Continuations[t[n]]
  <2>1. t[n] \in Byte /\ n \in DOMAIN t
    OBVIOUS
  <2>2. after \in n..(n + 2)
    BY <2>1, <1>8, ContinuationFacts
  <2>3. \A k \in DOMAIN t : k \in (n + 1)..after => t[k] = "cont"
    BY <2>1, <1>8 DEF Unicode
  <2>4. ~ (last \in (n + 1)..after)
    BY <2>3, <1>1
  <2>5. ~ (n \in (last + 1)..Len(t))
    BY <1>8
  <2>6. n = last => after = end
    OBVIOUS
  <2> HIDE DEF after, end
  <2>7. after <= Len(t)
    BY <2>2, <2>4, <2>5, <2>6, <1>1, <1>7
  <2> QED BY <2>7 DEF after
<1> QED BY <1>8, WholeMeans

\* What follows whole characters begins one.
LEMMA BeginsOne ==
  ASSUME NEW a \in Seq(Byte), NEW b \in Seq(Byte), Whole(a), Unicode(a \o b), b # <<>>
  PROVE  b[1] # "cont"
<1> DEFINE s == a \o b
           m == Len(a)
<1>1. m \in Nat /\ Len(b) \in Nat /\ s \in Seq(Byte) /\ Len(s) = m + Len(b)
      /\ DOMAIN s = 1..(m + Len(b)) /\ DOMAIN b = 1..Len(b)
  OBVIOUS
<1>2. (\A k \in 1..m : s[k] = a[k]) /\ (\A k \in 1..Len(b) : s[m + k] = b[k])
  OBVIOUS
<1>3. \A n \in 1..m : a[n] # "cont" => n + Continuations[a[n]] <= m
  BY WholeMeans
<1> HIDE DEF s, m
<1> SUFFICES ASSUME b[1] = "cont" PROVE FALSE
  OBVIOUS
<1>4. 1 \in 1..Len(b)
  OBVIOUS
<1>5. m + 1 \in 1..Len(s) /\ s[m + 1] = "cont" /\ m + 1 - 1 = m
  BY <1>1, <1>2, <1>4
<1>6. Unicode(s)
  BY DEF s
<1>7. PICK n \in 1..m : s[n] # "cont" /\ m + 1 <= n + Continuations[s[n]]
  <2> DEFINE p == m + 1
  <2>1. p \in 1..Len(s) /\ s[p] = "cont" /\ p - 1 = m
    BY <1>1, <1>5
  <2> HIDE DEF p
  <2>2. PICK n \in 1..(p - 1) : s[n] # "cont" /\ p <= n + Continuations[s[n]]
    BY <2>1, <1>1, <1>6, ContinuesSome
  <2> QED BY <2>1, <2>2 DEF p
<1>8. s[n] = a[n] /\ n + Continuations[a[n]] <= m
  BY <1>2, <1>3, <1>7
<1>9. s[n] \in Byte
  BY <1>1
<1>10. Continuations[s[n]] \in 0..2
  BY <1>7, <1>9, ContinuationFacts
<1> QED BY <1>1, <1>7, <1>8, <1>10

\* Between two cuts that split no character there are whole characters.
LEMMA Stretch ==
  ASSUME NEW a \in Seq(Byte), NEW b \in Seq(Byte), Whole(a), Whole(a \o b)
  PROVE  Whole(b)
<1> DEFINE s == a \o b
           m == Len(a)
<1>1. m \in Nat /\ Len(b) \in Nat /\ s \in Seq(Byte) /\ Len(s) = m + Len(b)
      /\ DOMAIN s = 1..(m + Len(b)) /\ DOMAIN b = 1..Len(b)
  OBVIOUS
<1>2. (\A k \in 1..m : s[k] = a[k]) /\ (\A k \in 1..Len(b) : s[m + k] = b[k])
  OBVIOUS
<1>3. /\ Unicode(s)
      /\ \A n \in 1..Len(s) : s[n] # "cont" => n + Continuations[s[n]] <= Len(s)
  BY <1>1, WholeMeans
<1> HIDE DEF s, m
<1>5. ASSUME b # <<>> PROVE b[1] # "cont"
  BY <1>3, <1>5, BeginsOne DEF s
<1>6. ASSUME NEW n \in DOMAIN b, b[n] # "cont"
      PROVE  LET after == n + Continuations[b[n]]
             IN /\ after <= Len(b)
                /\ \A k \in DOMAIN b : k \in (n + 1)..after => b[k] = "cont"
                /\ after + 1 \in DOMAIN b => b[after + 1] # "cont"
  <2> DEFINE c == Continuations[b[n]]
  <2>1. m + n \in 1..Len(s) /\ m + n \in DOMAIN s /\ s[m + n] = b[n] /\ b[n] \in Byte
    BY <1>1, <1>2
  <2>2. c \in 0..2
    BY <2>1, <1>6, ContinuationFacts
  <2>3. /\ m + n + c <= Len(s)
        /\ \A k \in DOMAIN s : k \in (m + n + 1)..(m + n + c) => s[k] = "cont"
        /\ m + n + c + 1 \in DOMAIN s => s[m + n + c + 1] # "cont"
    BY <2>1, <1>3, <1>6 DEF Unicode
  <2> HIDE DEF c
  <2>4. ASSUME NEW k \in DOMAIN b, k \in (n + 1)..(n + c) PROVE b[k] = "cont"
    <3>1. m + k \in DOMAIN s /\ m + k \in (m + n + 1)..(m + n + c) /\ s[m + k] = b[k]
      BY <2>2, <2>4, <1>1, <1>2
    <3> QED BY <3>1, <2>3
  <2>5. ASSUME n + c + 1 \in DOMAIN b PROVE b[n + c + 1] # "cont"
    <3>1. m + n + c + 1 \in DOMAIN s /\ s[m + n + c + 1] = b[n + c + 1]
      <4>1. m + (n + c + 1) = m + n + c + 1
        BY <2>2, <1>1
      <4> QED BY <4>1, <2>2, <2>5, <1>1, <1>2
    <3> QED BY <3>1, <2>3
  <2>6. n + c <= Len(b)
    BY <2>2, <2>3, <1>1
  <2> QED BY <2>4, <2>5, <2>6 DEF c
<1>7. Unicode(b)
  BY <1>5, <1>6 DEF Unicode
<1> QED BY <1>1, <1>6, <1>7, WholeMeans

-----------------------------------------------------------------------------
(* The reference, byte by byte *)

Start == [pending |-> <<>>, out |-> <<>>]
State == {s \in [pending : Seq(Byte), out : Seq(Text)] : Len(s.pending) < Size}

\* A byte is accepted into a state again.
LEMMA AcceptTyped ==
  ASSUME NEW s \in State, NEW b \in Byte
  PROVE  Accept(s, b) \in State
<1> DEFINE bytes == Append(s.pending, b)
<1>1. s.pending \in Seq(Byte) /\ s.out \in Seq(Text) /\ Len(s.pending) < Size
  BY DEF State
<1>2. bytes \in Seq(Byte) /\ Len(bytes) = Len(s.pending) + 1 /\ Last(bytes) = b
      /\ Len(s.pending) \in Nat
  BY <1>1 DEF Last
<1>3. Size \in Nat /\ Size > 3
  BY SizeAssumption
<1>4. <<>> \in Seq(Byte) /\ Len(<<>>) = 0
  OBVIOUS
<1> HIDE DEF bytes
<1>5. Message(bytes) \in Text
  BY <1>2, MessageFacts
<1>6. CASE b = "nl"
  <2>1. Accept(s, b) = [pending |-> <<>>, out |-> Append(s.out, Message(bytes))]
    BY <1>6 DEF Accept, bytes
  <2>2. Append(s.out, Message(bytes)) \in Seq(Text)
    BY <1>1, <1>5
  <2> QED BY <2>1, <2>2, <1>3, <1>4 DEF State
<1>7. CASE b # "nl" /\ Len(bytes) < Size
  <2>1. Accept(s, b) = [pending |-> bytes, out |-> s.out]
    BY <1>7 DEF Accept, bytes
  <2> QED BY <2>1, <1>1, <1>2, <1>7 DEF State
<1>8. CASE b # "nl" /\ ~ (Len(bytes) < Size)
  <2>1. Accept(s, b) = [pending |-> Fragment(bytes).rest,
                        out |-> Append(s.out, Fragment(bytes).message)]
    BY <1>8 DEF Accept, bytes
  <2>2. Len(bytes) = Size
    BY <1>1, <1>2, <1>3, <1>8
  <2>3. Fragment(bytes).message \in Text /\ Fragment(bytes).rest \in Seq(Byte)
        /\ Len(Fragment(bytes).rest) < 3
    BY <2>2, <1>2, <1>8, FragmentFacts
  <2>4. Append(s.out, Fragment(bytes).message) \in Seq(Text)
    BY <1>1, <2>3
  <2>5. Len(Fragment(bytes).rest) < Size
    <3>1. Len(Fragment(bytes).rest) \in Nat
      BY <2>3
    <3> QED BY <3>1, <2>3, <1>3
  <2> QED BY <2>1, <2>3, <2>4, <2>5 DEF State
<1> QED BY <1>6, <1>7, <1>8

\* There is a function as After defines it.
LEMMA StatesExist ==
  ASSUME NEW s \in Seq(Byte)
  PROVE  \E f \in [0..Len(s) -> State] :
           \A i \in 0..Len(s) : f[i] = IF i = 0 THEN Start ELSE Accept(f[i - 1], s[i])
<1> DEFINE P(n) == \E f \in [0..n -> State] :
             \A i \in 0..n : f[i] = IF i = 0 THEN Start ELSE Accept(f[i - 1], s[i])
           T == {n \in 0..Len(s) : ~ P(n)}
<1>0. Len(s) \in Nat
  OBVIOUS
<1> SUFFICES ASSUME ~ P(Len(s)) PROVE FALSE
  OBVIOUS
<1>1. T \in SUBSET Nat
  <2> HIDE DEF P
  <2> QED BY <1>0
<1> HIDE DEF T
<1>2. T # {}
  <2>1. Len(s) \in 0..Len(s)
    BY <1>0
  <2> HIDE DEF P
  <2>2. Len(s) \in T
    BY <2>1 DEF T
  <2> QED BY <2>2
<1>3. PICK n \in T : \A m \in T : n <= m
  BY <1>1, <1>2, LeastOf, Zenon
<1>4. n \in 0..Len(s) /\ ~ P(n)
  BY DEF T
<1>5. Start \in State
  BY SizeAssumption DEF Start, State
<1>6. CASE n = 0
  <2> DEFINE g == [i \in 0..0 |-> Start]
  <2>1. \A i \in 0..0 : g[i] = IF i = 0 THEN Start ELSE Accept(g[i - 1], s[i])
    OBVIOUS
  <2>2. g \in [0..0 -> State]
    BY <1>5
  <2> HIDE DEF g
  <2> QED BY <1>4, <1>6, <2>1, <2>2
<1>7. CASE n # 0
  <2>1. n - 1 \in 0..Len(s) /\ n \in 1..Len(s) /\ ~ (n <= n - 1)
    BY <1>4, <1>7, <1>0
  <2>2. n - 1 \notin T
    BY <1>3, <2>1
  <2>3. P(n - 1)
    BY <2>1, <2>2 DEF T
  <2>4. PICK f \in [0..(n - 1) -> State] :
          \A i \in 0..(n - 1) : f[i] = IF i = 0 THEN Start ELSE Accept(f[i - 1], s[i])
    BY <2>3
  <2> DEFINE last == Accept(f[n - 1], s[n])
             g == [i \in 0..n |-> IF i = n THEN last ELSE f[i]]
  <2>5. s[n] \in Byte /\ f[n - 1] \in State
    BY <2>1, <2>4
  <2>6. last \in State
    BY <2>5, AcceptTyped
  <2> HIDE DEF last
  <2>7. g \in [0..n -> State]
    <3>1. ASSUME NEW i \in 0..n, i # n PROVE f[i] \in State
      <4>1. i \in 0..(n - 1)
        BY <3>1, <2>1
      <4> QED BY <4>1, <2>4
    <3> QED BY <3>1, <2>6
  <2>8. ASSUME NEW i \in 0..n
        PROVE  g[i] = IF i = 0 THEN Start ELSE Accept(g[i - 1], s[i])
    <3>1. CASE i = n
      <4>1. n - 1 \in 0..n /\ n - 1 # n
        BY <2>1
      <4>2. g[n - 1] = f[n - 1] /\ g[n] = last
        BY <4>1, <2>1
      <4> QED BY <3>1, <4>2, <1>7 DEF last
    <3>2. CASE i # n
      <4>1. i \in 0..(n - 1) /\ (i # 0 => i - 1 \in 0..n /\ i - 1 # n)
        BY <3>2, <2>1
      <4>2. f[i] = IF i = 0 THEN Start ELSE Accept(f[i - 1], s[i])
        BY <2>4, <4>1
      <4>3. g[i] = f[i] /\ (i # 0 => g[i - 1] = f[i - 1])
        BY <4>1, <3>2
      <4> QED BY <4>2, <4>3
    <3> QED BY <3>1, <3>2
  <2> HIDE DEF g
  <2> QED BY <1>4, <2>7, <2>8
<1> QED BY <1>6, <1>7

\* The states of the reference on its way through a stream.
LEMMA AfterSteps ==
  ASSUME NEW s \in Seq(Byte)
  PROVE  \E f \in [0..Len(s) -> State] :
           /\ After(s) = f[Len(s)]
           /\ \A i \in 0..Len(s) : f[i] = IF i = 0 THEN Start ELSE Accept(f[i - 1], s[i])
<1>0. Len(s) \in Nat
  OBVIOUS
<1> DEFINE D == CHOOSE f : f = [i \in 0..Len(s) |->
                  IF i = 0 THEN [pending |-> <<>>, out |-> <<>>] ELSE Accept(f[i - 1], s[i])]
<1>1. After(s) = D[Len(s)]
  BY Zenon DEF After
<1>2. \E f \in [0..Len(s) -> State] : f = [i \in 0..Len(s) |->
        IF i = 0 THEN [pending |-> <<>>, out |-> <<>>] ELSE Accept(f[i - 1], s[i])]
  <2>1. PICK f \in [0..Len(s) -> State] :
          \A i \in 0..Len(s) : f[i] = IF i = 0 THEN Start ELSE Accept(f[i - 1], s[i])
    BY StatesExist
  <2>2. f = [i \in 0..Len(s) |->
          IF i = 0 THEN [pending |-> <<>>, out |-> <<>>] ELSE Accept(f[i - 1], s[i])]
    BY <2>1 DEF Start
  <2> QED BY <2>2
<1>3. D = [i \in 0..Len(s) |->
        IF i = 0 THEN [pending |-> <<>>, out |-> <<>>] ELSE Accept(D[i - 1], s[i])]
  BY <1>2, Zenon
<1> HIDE DEF D
<1>4. \A i \in 0..Len(s) : D[i] = IF i = 0 THEN Start ELSE Accept(D[i - 1], s[i])
  BY <1>3, Zenon DEF Start
<1>5. Start \in State
  BY SizeAssumption DEF Start, State
<1> DEFINE T == {i \in 0..Len(s) : D[i] \notin State}
<1>6. T = {}
  <2> SUFFICES ASSUME T # {} PROVE FALSE
    OBVIOUS
  <2>1. T \in SUBSET Nat
    BY <1>0
  <2>2. PICK n \in T : \A m \in T : n <= m
    BY <2>1, LeastOf, Zenon
  <2>3. n \in 0..Len(s)
    OBVIOUS
  <2>4. CASE n = 0
    BY <2>3, <2>4, <1>4, <1>5
  <2>5. CASE n # 0
    <3>1. n - 1 \in 0..Len(s) /\ ~ (n <= n - 1) /\ n \in 1..Len(s)
      BY <2>3, <2>5, <1>0
    <3>2. D[n - 1] \in State
      BY <3>1, <2>2
    <3>3. D[n] = Accept(D[n - 1], s[n])
      BY <2>3, <2>5, <1>4
    <3>4. D[n] \in State
      BY <3>1, <3>2, <3>3, AcceptTyped
    <3> QED BY <3>4
  <2> QED BY <2>4, <2>5
<1>7. \A i \in 0..Len(s) : D[i] \in State
  BY <1>6
<1>8. D \in [0..Len(s) -> State]
  BY <1>3, <1>7
<1> QED BY <1>1, <1>4, <1>8

\* A stream taken byte by byte: one more byte is accepted after the others.
LEMMA AfterAppend ==
  ASSUME NEW s \in Seq(Byte), NEW b \in Byte
  PROVE  /\ After(<<>>) = Start
         /\ After(s) \in State
         /\ After(Append(s, b)) = Accept(After(s), b)
<1> DEFINE t == Append(s, b)
<1>0. Len(s) \in Nat /\ Len(s) \in 0..Len(s)
  OBVIOUS
<1>1. After(<<>>) = Start
  <2>1. <<>> \in Seq(Byte) /\ Len(<<>>) = 0 /\ 0 \in 0..0
    OBVIOUS
  <2>2. PICK f \in [0..0 -> State] :
          After(<<>>) = f[0] /\ \A i \in 0..0 : f[i] = IF i = 0 THEN Start ELSE Accept(f[i - 1], <<>>[i])
    BY <2>1, AfterSteps
  <2> QED BY <2>1, <2>2
<1>2. PICK g \in [0..Len(s) -> State] :
        /\ After(s) = g[Len(s)]
        /\ \A i \in 0..Len(s) : g[i] = IF i = 0 THEN Start ELSE Accept(g[i - 1], s[i])
  BY AfterSteps
<1>3. t \in Seq(Byte) /\ Len(t) = Len(s) + 1
  BY AppendProperties
<1>4. (\A i \in 1..Len(s) : t[i] = s[i]) /\ t[Len(s) + 1] = b
  OBVIOUS
<1> HIDE DEF t
<1>5. PICK f \in [0..Len(t) -> State] :
        /\ After(t) = f[Len(t)]
        /\ \A i \in 0..Len(t) : f[i] = IF i = 0 THEN Start ELSE Accept(f[i - 1], t[i])
  BY <1>3, AfterSteps
<1> DEFINE T == {i \in 0..Len(s) : f[i] # g[i]}
<1>6. T = {}
  <2> SUFFICES ASSUME T # {} PROVE FALSE
    OBVIOUS
  <2>1. T \in SUBSET Nat
    BY <1>0
  <2>2. PICK n \in T : \A m \in T : n <= m
    BY <2>1, LeastOf, Zenon
  <2>3. n \in 0..Len(s) /\ n \in 0..Len(t)
    BY <1>0, <1>3
  <2>4. CASE n = 0
    BY <2>3, <2>4, <1>2, <1>5
  <2>5. CASE n # 0
    <3>1. n - 1 \in 0..Len(s) /\ ~ (n <= n - 1) /\ n \in 1..Len(s)
      BY <2>3, <2>5, <1>0
    <3>2. f[n - 1] = g[n - 1]
      BY <3>1, <2>2
    <3>3. f[n] = Accept(f[n - 1], t[n]) /\ g[n] = Accept(g[n - 1], s[n])
      BY <2>3, <2>5, <1>2, <1>5
    <3> QED BY <3>1, <3>2, <3>3, <1>4
  <2> QED BY <2>4, <2>5
<1>7. f[Len(s)] = g[Len(s)]
  BY <1>0, <1>6
<1>8. f[Len(t)] = Accept(f[Len(s)], b)
  <2>1. Len(t) \in 0..Len(t) /\ Len(t) # 0 /\ Len(t) - 1 = Len(s)
    BY <1>0, <1>3
  <2> QED BY <2>1, <1>3, <1>4, <1>5
<1>9. After(s) \in State
  BY <1>0, <1>2
<1> QED BY <1>1, <1>2, <1>5, <1>7, <1>8, <1>9 DEF t

-----------------------------------------------------------------------------
(* One round of the loop *)

\* A message that a line or a full fragment makes of a UTF-8 stream is of whole
\* characters, and so is all that has then been said.
LEMMA LineWhole ==
  ASSUME NEW said \in Seq(Byte), NEW bytes \in Seq(Byte), NEW left \in Seq(Byte),
         Unicode(said \o bytes \o left), Whole(said), bytes # <<>>, Last(bytes) = "nl"
  PROVE  Whole(said \o bytes) /\ Whole(Message(bytes).text)
<1> DEFINE t == said \o bytes
           front == SubSeq(bytes, 1, Len(bytes) - 1)
           u == said \o front
<1>1. t \in Seq(Byte) /\ Len(t) = Len(said) + Len(bytes) /\ t \o left \in Seq(Byte)
      /\ Len(t \o left) = Len(t) + Len(left) /\ (\A k \in 1..Len(t) : (t \o left)[k] = t[k])
      /\ Len(said) \in Nat /\ Len(bytes) \in Nat /\ Len(left) \in Nat /\ Len(bytes) # 0
  BY ConcatProperties
<1>2. (\A k \in 1..Len(said) : t[k] = said[k]) /\ (\A k \in 1..Len(bytes) : t[Len(said) + k] = bytes[k])
  OBVIOUS
<1>3. Message(bytes).text = front
  BY MessageFacts
<1>4. \A k \in 1..(Len(bytes) - 1) : front[k] = bytes[k]
  BY FrontFacts
<1>5. Len(front) = Len(bytes) - 1
  BY FrontFacts
<1>6. front \in Seq(Byte)
  BY FrontFacts
<1>7. Unicode(t)
  <2> HIDE DEF t
  <2>1. Len(t) \in Nat /\ Len(t) <= Len(t \o left)
    BY <1>1
  <2>2. Unicode(t \o left)
    BY DEF t
  <2> QED BY <1>1, <2>1, <2>2, UnicodePrefix
<1>8. t # <<>> /\ t[Len(t)] = "nl"
  <2>1. bytes[Len(bytes)] = "nl" /\ Len(bytes) \in 1..Len(bytes)
    BY <1>1 DEF Last
  <2> QED BY <1>1, <1>2, <2>1
<1>9. u \in Seq(Byte) /\ Len(u) = Len(said) + Len(front)
      /\ (\A k \in 1..Len(said) : u[k] = said[k]) /\ (\A k \in 1..Len(front) : u[Len(said) + k] = front[k])
  BY <1>6
<1> HIDE DEF t, u, front
<1>10. Whole(t)
  BY <1>1, <1>7, <1>8, CutNewline DEF Last
<1>11. Len(u) < Len(t) /\ t[Len(u) + 1] # "cont"
  BY <1>1, <1>5, <1>8, <1>9
<1>12. ASSUME NEW k \in 1..Len(u) PROVE u[k] = t[k]
  <2>1. CASE k <= Len(said)
    BY <2>1, <1>1, <1>2, <1>9
  <2>2. CASE ~ (k <= Len(said))
    <3>1. k - Len(said) \in 1..Len(front) /\ k - Len(said) \in 1..(Len(bytes) - 1)
          /\ k - Len(said) \in 1..Len(bytes) /\ Len(said) + (k - Len(said)) = k
      BY <2>2, <1>1, <1>5, <1>9
    <3> QED BY <3>1, <1>2, <1>4, <1>9
  <2> QED BY <2>1, <2>2
<1>13. Whole(u)
  BY <1>1, <1>7, <1>9, <1>11, <1>12, CutBefore
<1>14. Whole(front)
  BY <1>6, <1>13, Stretch DEF u
<1> QED BY <1>3, <1>10, <1>14 DEF t

\* Likewise of a full fragment, whose unfinished character is held back.
LEMMA FragmentWhole ==
  ASSUME NEW said \in Seq(Byte), NEW bytes \in Seq(Byte), NEW left \in Seq(Byte),
         Unicode(said \o bytes \o left), Whole(said),
         Len(bytes) = Size, \A k \in 1..Len(bytes) : bytes[k] # "nl"
  PROVE  LET m == Fragment(bytes).message
         IN Whole(said \o Original(m)) /\ Whole(m.text)
<1> DEFINE t == said \o bytes
           last == LastStart(bytes)
           m == Fragment(bytes).message
<1> HIDE DEF last, m
<1>1. t \in Seq(Byte) /\ Len(t) = Len(said) + Len(bytes) /\ t \o left \in Seq(Byte)
      /\ Len(t \o left) = Len(t) + Len(left) /\ (\A k \in 1..Len(t) : (t \o left)[k] = t[k])
      /\ Len(said) \in Nat /\ Len(bytes) \in Nat /\ Len(left) \in Nat
  <2>1. t \in Seq(Byte) /\ Len(t) = Len(said) + Len(bytes)
    BY ConcatProperties
  <2>2. Len(said) \in Nat /\ Len(bytes) \in Nat /\ Len(left) \in Nat
    OBVIOUS
  <2> HIDE DEF t
  <2>3. t \o left \in Seq(Byte) /\ Len(t \o left) = Len(t) + Len(left)
    BY <2>1, ConcatProperties
  <2>4. \A k \in 1..Len(t) : (t \o left)[k] = t[k]
    BY <2>1
  <2> QED BY <2>1, <2>2, <2>3, <2>4
<1>2. (\A k \in 1..Len(said) : t[k] = said[k]) /\ (\A k \in 1..Len(bytes) : t[Len(said) + k] = bytes[k])
  OBVIOUS
<1>3. Len(bytes) > 3 /\ bytes # <<>> /\ Len(bytes) \in 1..Len(bytes)
  BY SizeAssumption
<1>4. Last(bytes) # "nl"
  BY <1>3 DEF Last
<1>5. /\ last \in 1..Len(bytes)
      /\ last # 1 => bytes[last] # "cont"
      /\ \A k \in (last + 1)..Len(bytes) : bytes[k] = "cont"
  BY <1>3, LastStartFacts DEF last
<1>6. Unicode(t)
  <2> HIDE DEF t
  <2>1. Len(t) \in Nat /\ Len(t) <= Len(t \o left)
    BY <1>1
  <2>2. Unicode(t \o left)
    BY DEF t
  <2> QED BY <1>1, <2>1, <2>2, UnicodePrefix
<1>7. bytes[1] # "cont"
  BY <1>3, <1>6, BeginsOne
<1>8. bytes[last] # "cont"
  BY <1>5, <1>7
<1>9. m \in Text
      /\ (FullRune(SubSeq(bytes, last, Len(bytes))) => m = Message(bytes))
      /\ (~ FullRune(SubSeq(bytes, last, Len(bytes))) =>
            last > 1 /\ m = Message(SubSeq(bytes, 1, last - 1)))
  BY <1>4, FragmentFacts DEF m, last
<1> HIDE DEF t
<1> DEFINE c == Len(said)
<1>10. CASE FullRune(SubSeq(bytes, last, Len(bytes)))
  <2>1. m = Message(bytes) /\ m.text = bytes /\ Original(m) = bytes
    BY <1>4, <1>9, <1>10, MessageFacts
  <2>2. c + last \in 1..Len(t) /\ t[c + last] # "cont"
    BY <1>1, <1>2, <1>5, <1>8
  <2>3. ASSUME NEW k \in (c + last + 1)..Len(t) PROVE t[k] = "cont"
    <3>1. k - c \in (last + 1)..Len(bytes) /\ k - c \in 1..Len(bytes) /\ c + (k - c) = k
      BY <1>1, <1>5
    <3> QED BY <3>1, <1>2, <1>5
  <2> DEFINE from == c + last
             to == Len(t)
  <2>4. from \in c + 1..c + Len(bytes) /\ to \in c + 1..c + Len(bytes)
        /\ from - c = last /\ to - c = Len(bytes)
    BY <1>1, <1>3, <1>5
  <2>5. \A i, j \in c + 1..c + Len(bytes) : SubSeq(t, i, j) = SubSeq(bytes, i - c, j - c)
    BY SubSeqOfConcat2 DEF t
  <2> HIDE DEF c, from, to
  <2>6. SubSeq(t, from, to) = SubSeq(bytes, last, Len(bytes))
    BY <2>4, <2>5
  <2>7. FullRune(SubSeq(t, from, Len(t)))
    BY <2>6, <1>10 DEF to
  <2>8. from \in 1..Len(t) /\ t[from] # "cont" /\ \A k \in (from + 1)..Len(t) : t[k] = "cont"
    BY <2>2, <2>3 DEF from
  <2>9. Whole(t)
    BY <1>1, <1>6, <2>7, <2>8, CutFull
  <2>10. Whole(bytes)
    BY <2>9, Stretch DEF t
  <2> QED BY <2>1, <2>9, <2>10 DEF m, t
<1>11. CASE ~ FullRune(SubSeq(bytes, last, Len(bytes)))
  <2> DEFINE head == SubSeq(bytes, 1, last - 1)
             u == said \o head
  <2>1. head \in Seq(Byte) /\ Len(head) = last - 1 /\ (\A k \in 1..(last - 1) : head[k] = bytes[k])
    BY <1>1, <1>5, <1>9, <1>11
  <2>2. last - 1 \in 1..Len(bytes) /\ last - 1 \in 1..(last - 1) /\ bytes[last - 1] # "nl"
    BY <1>1, <1>5, <1>9, <1>11
  <2> HIDE DEF head
  <2>3. Last(head) # "nl"
    BY <2>1, <2>2 DEF Last
  <2>4. m = Message(head)
    BY <1>9, <1>11 DEF head
  <2>5. m.text = head /\ Original(m) = head
    BY <2>1, <2>3, <2>4, MessageFacts
  <2>6. u \in Seq(Byte) /\ Len(u) = c + Len(head)
        /\ (\A k \in 1..c : u[k] = said[k]) /\ (\A k \in 1..Len(head) : u[c + k] = head[k])
    <3>1. u \in Seq(Byte) /\ Len(u) = c + Len(head)
      BY <2>1, ConcatProperties
    <3>2. \A k \in 1..c : u[k] = said[k]
      BY <2>1
    <3>3. \A k \in 1..Len(head) : u[c + k] = head[k]
      BY <2>1
    <3> QED BY <3>1, <3>2, <3>3
  <2> HIDE DEF u
  <2>7. Len(u) < Len(t) /\ t[Len(u) + 1] # "cont"
    <3>1. Len(u) + 1 = c + last
      BY <1>1, <1>5, <2>1, <2>6
    <3> QED BY <3>1, <1>1, <1>2, <1>5, <1>8, <2>1, <2>6
  <2>8. ASSUME NEW k \in 1..Len(u) PROVE u[k] = t[k]
    <3>1. CASE k <= c
      BY <3>1, <1>1, <1>2, <2>6
    <3>2. CASE ~ (k <= c)
      <4>1. c \in Nat /\ k \in 1..(c + last - 1)
        BY <1>1, <1>5, <2>1, <2>6
      <4>2. k - c \in 1..(last - 1) /\ c + (k - c) = k
        <5> HIDE DEF c
        <5> QED BY <3>2, <4>1, <1>5
      <4>3. k - c \in 1..Len(head) /\ k - c \in 1..Len(bytes)
        <5>1. last \in 1..Len(bytes) /\ Len(bytes) \in Nat /\ Len(head) = last - 1
          BY <1>1, <1>5, <2>1
        <5> DEFINE x == k - c
        <5>2. x \in 1..(last - 1)
          BY <4>2
        <5> HIDE DEF x
        <5>3. x \in 1..Len(head) /\ x \in 1..Len(bytes)
          BY ONLY <5>1, <5>2
        <5> QED BY <5>3 DEF x
      <4> QED BY <4>2, <4>3, <1>2, <2>1, <2>6
    <3> QED BY <3>1, <3>2
  <2>9. Whole(u)
    BY <1>1, <1>6, <2>6, <2>7, <2>8, CutBefore
  <2>10. Whole(head)
    BY <2>1, <2>9, Stretch DEF u
  <2> QED BY <2>5, <2>9, <2>10 DEF m, u
<1> QED BY <1>10, <1>11

\* Appending after a concatenation.
LEMMA ConcatAppend ==
  ASSUME NEW a \in Seq(Byte), NEW b \in Seq(Byte), NEW e \in Byte
  PROVE  a \o Append(b, e) = Append(a \o b, e)
<1>1. <<e>> \in Seq(Byte)
  OBVIOUS
<1>2. Append(b, e) = b \o <<e>> /\ Append(a \o b, e) = (a \o b) \o <<e>>
  BY AppendIsConcat, ConcatProperties
<1> QED BY <1>1, <1>2, ConcatAssociative

\* The reference accepts bytes that end neither a line nor a fragment into what is pending.
LEMMA WithinLine ==
  ASSUME NEW s \in Seq(Byte), NEW p \in Seq(Byte), NEW o \in Seq(Text), NEW b \in Seq(Byte),
         After(s) = [pending |-> p, out |-> o],
         Len(p) + Len(b) < Size, \A k \in 1..Len(b) : b[k] # "nl"
  PROVE  After(s \o b) = [pending |-> p \o b, out |-> o]
<1> DEFINE part(n) == SubSeq(b, 1, n)
           P(n) == After(s \o part(n)) = [pending |-> p \o part(n), out |-> o]
           T == {n \in 0..Len(b) : ~ P(n)}
<1>0. Len(b) \in Nat /\ Len(p) \in Nat /\ Size \in Nat
  BY SizeAssumption
<1>1. T \in SUBSET Nat
  <2> HIDE DEF P
  <2> QED BY <1>0
<1>2. T = {}
  <2> SUFFICES ASSUME T # {} PROVE FALSE
    OBVIOUS
  <2> HIDE DEF T
  <2>1. PICK n \in T : \A m \in T : n <= m
    BY <1>1, LeastOf, Zenon
  <2>2. n \in 0..Len(b) /\ ~ P(n)
    BY DEF T
  <2>3. CASE n = 0
    <3>1. part(0) = <<>>
      BY SubSeqEmpty
    <3>2. s \o <<>> = s /\ p \o <<>> = p
      BY ConcatEmptySeq
    <3> HIDE DEF part
    <3> QED BY <2>2, <2>3, <3>1, <3>2
  <2>4. CASE n # 0
    <3> DEFINE m == n - 1
    <3>1. m \in 0..Len(b) /\ n \in 1..Len(b) /\ ~ (n <= m) /\ n = m + 1 /\ m \in Nat
      BY <2>2, <2>4, <1>0
    <3> HIDE DEF m
    <3>2. m \notin T
      BY <2>1, <3>1
    <3>3. P(m)
      BY <3>1, <3>2 DEF T
    <3>4. b[n] \in Byte /\ b[n] # "nl"
      BY <3>1
    <3>5. part(m) \in Seq(Byte) /\ Len(part(m)) = m
      BY <3>1, <1>0
    <3>6. part(n) = Append(part(m), b[n])
      <4>1. SubSeq(b, 1, n) = SubSeq(b, 1, n - 1) \o <<b[n]>>
        <5>1. 1 \in 1..Len(b) /\ n \in 1..Len(b)
          BY <3>1, <1>0
        <5> QED BY <5>1, SubSeqRecursiveSecond
      <4>2. n - 1 = m
        BY <3>1
      <4>3. part(n) = part(m) \o <<b[n]>>
        BY <4>1, <4>2
      <4> HIDE DEF part
      <4> QED BY <4>3, <3>4, <3>5, AppendIsConcat
    <3> DEFINE q == part(m)
    <3>7. q \in Seq(Byte) /\ Len(q) = m /\ part(n) = Append(q, b[n])
      BY <3>5, <3>6
    <3>8. After(s \o q) = [pending |-> p \o q, out |-> o]
      BY <3>3
    <3> HIDE DEF q
    <3>9. s \o part(n) = Append(s \o q, b[n]) /\ p \o part(n) = Append(p \o q, b[n])
      <4>1. \A a \in Seq(Byte) : a \o Append(q, b[n]) = Append(a \o q, b[n])
        BY ONLY <3>4, <3>7, ConcatAppend
      <4> QED BY <4>1, <3>7
    <3>10. After(Append(s \o q, b[n])) = Accept(After(s \o q), b[n])
      <4>1. s \o q \in Seq(Byte)
        BY <3>7
      <4> QED BY ONLY <4>1, <3>4, AfterAppend
    <3>11. Len(Append(p \o q, b[n])) < Size
      <4>1. p \o q \in Seq(Byte) /\ Len(p \o q) = Len(p) + m
        BY <3>7, ConcatProperties
      <4>2. Len(Append(p \o q, b[n])) = Len(p) + m + 1
        BY <4>1, <3>4
      <4> QED BY <4>2, <3>1, <1>0
    <3>12. Accept(After(s \o q), b[n]) = [pending |-> Append(p \o q, b[n]), out |-> o]
      BY <3>4, <3>8, <3>11 DEF Accept
    <3>13. P(n)
      BY <3>9, <3>10, <3>12
    <3> QED BY <3>13, <2>2
  <2> QED BY <2>3, <2>4
<1>3. P(Len(b))
  <2>1. Len(b) \in 0..Len(b)
    BY <1>0
  <2> HIDE DEF P
  <2> QED BY <2>1, <1>2
<1>4. part(Len(b)) = b
  BY SubSeqFull
<1> HIDE DEF part
<1> QED BY <1>3, <1>4

\* The reference takes the bytes of a round as the round does.
LEMMA RoundAfter ==
  ASSUME NEW s \in Seq(Byte), NEW p \in Seq(Byte), NEW o \in Seq(Text), NEW b \in Seq(Byte),
         After(s) = [pending |-> p, out |-> o], b # <<>>,
         Len(p) + Len(b) <= Size, \A k \in 1..(Len(b) - 1) : b[k] # "nl"
  PROVE  LET bytes == p \o b
         IN After(s \o b) =
              IF Last(bytes) = "nl"
              THEN [pending |-> <<>>, out |-> Append(o, Message(bytes))]
              ELSE IF Len(bytes) # Size THEN [pending |-> bytes, out |-> o]
              ELSE [pending |-> Fragment(bytes).rest, out |-> Append(o, Fragment(bytes).message)]
<1> DEFINE f == SubSeq(b, 1, Len(b) - 1)
           e == b[Len(b)]
           bytes == p \o b
<1>1. f \in Seq(Byte) /\ Len(f) = Len(b) - 1 /\ \A k \in 1..(Len(b) - 1) : f[k] = b[k]
  BY FrontFacts
<1>2. Len(b) \in Nat /\ Len(p) \in Nat /\ Size \in Nat /\ Len(b) \in 1..Len(b)
  BY SizeAssumption
<1>3. e \in Byte
  BY <1>2
<1> HIDE DEF f
<1>4. b = Append(f, e)
  <2>1. Append(f, e) \in Seq(Byte) /\ Len(Append(f, e)) = Len(b)
    BY <1>1, <1>2, <1>3
  <2>2. \A k \in 1..Len(b) : Append(f, e)[k] = b[k]
    BY <1>1, <1>2, <1>3
  <2> QED BY <2>1, <2>2, SeqEqual
<1> HIDE DEF e
<1>5. Len(p) + Len(f) < Size /\ \A k \in 1..Len(f) : f[k] # "nl"
  BY <1>1, <1>2
<1>6. After(s \o f) = [pending |-> p \o f, out |-> o]
  <2>1. f \in Seq(Byte)
    BY <1>1
  <2> QED BY ONLY <2>1, <1>5, WithinLine, s \in Seq(Byte), p \in Seq(Byte), o \in Seq(Text),
                  After(s) = [pending |-> p, out |-> o]
<1>7. s \o b = Append(s \o f, e) /\ bytes = Append(p \o f, e)
  BY ONLY <1>1, <1>3, <1>4, ConcatAppend, s \in Seq(Byte), p \in Seq(Byte)
<1>8. After(Append(s \o f, e)) = Accept(After(s \o f), e)
  <2>1. s \o f \in Seq(Byte)
    BY <1>1
  <2> QED BY ONLY <2>1, <1>3, AfterAppend
<1>9. After(s \o b) = Accept([pending |-> p \o f, out |-> o], e)
  BY <1>6, <1>7, <1>8
<1>10. p \o f \in Seq(Byte)
  BY <1>1
<1>11. Last(bytes) = e
  BY <1>3, <1>7, <1>10 DEF Last
<1>12. bytes \in Seq(Byte) /\ Len(bytes) = Len(p) + Len(b)
  OBVIOUS
<1> HIDE DEF bytes
<1>13. Accept([pending |-> p \o f, out |-> o], e) =
         IF e = "nl" THEN [pending |-> <<>>, out |-> Append(o, Message(bytes))]
         ELSE IF Len(bytes) < Size THEN [pending |-> bytes, out |-> o]
         ELSE [pending |-> Fragment(bytes).rest, out |-> Append(o, Fragment(bytes).message)]
  BY <1>7 DEF Accept
<1>14. Len(bytes) < Size <=> Len(bytes) # Size
  <2>1. \A n \in Nat : n <= Size => (n < Size <=> n # Size)
    BY <1>2
  <2>2. Len(bytes) \in Nat /\ Len(bytes) <= Size
    BY <1>12
  <2> QED BY <2>1, <2>2
<1> QED BY <1>9, <1>11, <1>13, <1>14 DEF bytes

-----------------------------------------------------------------------------
(* The invariant, of a stream that has not ended *)

LogAt(p, d, o, g) ==
  /\ p \in Seq(Byte) /\ d \in Seq(Byte) /\ g \in Seq(Byte) /\ o \in Seq(Text)
  /\ Len(p) < Size
  /\ \A k \in DOMAIN p : p[k] # "nl"
  /\ SaidOf(o) \o p \o d = g
  /\ After(SaidOf(o) \o p) = [pending |-> p, out |-> o]
  /\ \A k \in DOMAIN o : Len(o[k].text) <= Size
  /\ Unicode(g) => Whole(SaidOf(o)) /\ \A k \in DOMAIN o : Whole(o[k].text)

\* What is taken is what there is without what is still to be taken.
LEMMA TakenSoFar ==
  ASSUME NEW a \in Seq(Byte), NEW b \in Seq(Byte)
  PROVE  SubSeq(a \o b, 1, Len(a \o b) - Len(b)) = a
<1> DEFINE s == a \o b
<1>1. Len(s) - Len(b) = Len(a) /\ s \in Seq(Byte) /\ Len(a) \in Nat /\ Len(b) \in Nat
      /\ Len(s) = Len(a) + Len(b)
  OBVIOUS
<1>2. \A k \in 1..Len(a) : s[k] = a[k]
  OBVIOUS
<1> HIDE DEF s
<1>3. SubSeq(s, 1, Len(a)) \in Seq(Byte) /\ Len(SubSeq(s, 1, Len(a))) = Len(a)
      /\ (\A k \in 1..Len(a) : SubSeq(s, 1, Len(a))[k] = s[k])
  BY <1>1
<1>4. SubSeq(s, 1, Len(a)) = a
  BY <1>2, <1>3, SeqEqual
<1> QED BY <1>1, <1>4 DEF s

\* Some bytes are written.
LEMMA WriteAt ==
  ASSUME NEW p, NEW o, NEW g, LogAt(p, <<>>, o, g), NEW bytes \in Seq(Byte)
  PROVE  LogAt(p, bytes, o, g \o bytes)
<1>1. p \in Seq(Byte) /\ o \in Seq(Text) /\ g \in Seq(Byte)
  BY DEF LogAt
<1>2. SaidOf(o) \in Seq(Byte)
  BY <1>1, SaidTyped
<1>3. SaidOf(o) \o p \in Seq(Byte)
  BY <1>1, <1>2, ConcatProperties
<1>4. SaidOf(o) \o p = g
  BY <1>3, ConcatEmptySeq DEF LogAt
<1>5. g \o bytes \in Seq(Byte) /\ Len(g) <= Len(g \o bytes)
      /\ \A k \in 1..Len(g) : (g \o bytes)[k] = g[k]
  BY <1>1
<1>6. Unicode(g \o bytes) => Unicode(g)
  BY <1>1, <1>5, UnicodePrefix
<1> QED BY <1>1, <1>4, <1>5, <1>6 DEF LogAt

\* What a round of the loop has before it.
LEMMA RoundAt ==
  ASSUME NEW p, NEW d, NEW o, NEW g, LogAt(p, d, o, g), d # <<>>
  PROVE  LET n == Taken(p, d)
             bytes == p \o SubSeq(d, 1, n)
             left == SubSeq(d, n + 1, Len(d))
         IN /\ bytes \in Seq(Byte) /\ left \in Seq(Byte) /\ bytes # <<>>
            /\ Len(bytes) <= Size
            /\ Last(bytes) # "nl" => \A k \in 1..Len(bytes) : bytes[k] # "nl"
            /\ SaidOf(o) \in Seq(Byte)
            /\ g = SaidOf(o) \o bytes \o left
            /\ After(SaidOf(o) \o bytes) =
                 IF Last(bytes) = "nl"
                 THEN [pending |-> <<>>, out |-> Append(o, Message(bytes))]
                 ELSE IF Len(bytes) # Size THEN [pending |-> bytes, out |-> o]
                 ELSE [pending |-> Fragment(bytes).rest, out |-> Append(o, Fragment(bytes).message)]
<1> DEFINE n == Taken(p, d)
           part == SubSeq(d, 1, n)
           bytes == p \o part
           left == SubSeq(d, n + 1, Len(d))
           said == SaidOf(o)
<1>1. p \in Seq(Byte) /\ d \in Seq(Byte) /\ o \in Seq(Text) /\ g \in Seq(Byte) /\ Len(p) < Size
      /\ (\A k \in 1..Len(p) : p[k] # "nl") /\ said \o p \o d = g
      /\ After(said \o p) = [pending |-> p, out |-> o]
  BY DEF LogAt
<1>2. said \in Seq(Byte)
  BY <1>1, SaidTyped
<1>3. /\ n \in 1..Len(d)
      /\ Len(p) + n <= Size
      /\ \A k \in 1..(n - 1) : d[k] # "nl"
  BY <1>1, TakenFacts
<1> HIDE DEF n, said
<1>4. Len(d) \in Nat /\ Len(p) \in Nat /\ Size \in Nat /\ n \in Nat
  BY <1>1, <1>3, SizeAssumption
<1>5. part \in Seq(Byte) /\ Len(part) = n /\ (\A k \in 1..n : part[k] = d[k]) /\ left \in Seq(Byte)
  BY <1>1, <1>3, <1>4
<1>6. part \o left = d
  <2>1. 1 \in 1..Len(d) + 1 /\ n \in 1 - 1..Len(d) /\ Len(d) \in n..Len(d)
    BY <1>3, <1>4
  <2>2. SubSeq(d, 1, n) \o SubSeq(d, n + 1, Len(d)) = SubSeq(d, 1, Len(d))
    BY <1>1, <2>1, ConcatAdjacentSubSeq
  <2> QED BY <2>2, <1>1, SubSeqFull
<1> HIDE DEF part, left
<1>7. bytes \in Seq(Byte) /\ Len(bytes) = Len(p) + n
      /\ (\A k \in 1..Len(p) : bytes[k] = p[k]) /\ (\A k \in 1..n : bytes[Len(p) + k] = part[k])
  <2>1. p \in Seq(Byte) /\ part \in Seq(Byte) /\ Len(part) = n
    BY <1>1, <1>5
  <2>2. bytes \in Seq(Byte) /\ Len(bytes) = Len(p) + n
    BY <2>1, ConcatProperties
  <2>3. \A k \in 1..Len(p) : bytes[k] = p[k]
    BY <2>1
  <2>4. \A k \in 1..n : bytes[Len(p) + k] = part[k]
    BY <2>1
  <2> QED BY <2>2, <2>3, <2>4
<1>8. part # <<>>
  BY <1>3, <1>5
<1>9. said \o bytes = (said \o p) \o part
  <2>1. p \in Seq(Byte) /\ part \in Seq(Byte)
    BY <1>1, <1>5
  <2> QED BY ONLY <2>1, <1>2, ConcatAssociative DEF bytes
<1>10. g = said \o bytes \o left
  <2>1. said \o p \in Seq(Byte)
    BY <1>1, <1>2, ConcatProperties
  <2>2. (said \o p) \o (part \o left) = ((said \o p) \o part) \o left
    <3>1. part \in Seq(Byte) /\ left \in Seq(Byte)
      BY <1>5
    <3> DEFINE x == said \o p
    <3>2. x \in Seq(Byte)
      BY <2>1
    <3> HIDE DEF x
    <3>3. (x \o part) \o left = x \o (part \o left)
      BY ONLY <3>1, <3>2, BytesAssociative
    <3> QED BY <3>3 DEF x
  <2> QED BY <2>2, <1>1, <1>6, <1>9
<1>11. After((said \o p) \o part) =
         IF Last(bytes) = "nl"
         THEN [pending |-> <<>>, out |-> Append(o, Message(bytes))]
         ELSE IF Len(bytes) # Size THEN [pending |-> bytes, out |-> o]
         ELSE [pending |-> Fragment(bytes).rest, out |-> Append(o, Fragment(bytes).message)]
  <2>1. said \o p \in Seq(Byte)
    BY <1>1, <1>2, ConcatProperties
  <2>2. Len(p) + Len(part) <= Size /\ \A k \in 1..(Len(part) - 1) : part[k] # "nl"
    BY <1>3, <1>5
  <2>3. p \in Seq(Byte) /\ o \in Seq(Text) /\ part \in Seq(Byte)
        /\ After(said \o p) = [pending |-> p, out |-> o]
    BY <1>1, <1>5
  <2> QED BY ONLY <2>1, <2>2, <2>3, <1>8, RoundAfter
<1> HIDE DEF bytes
<1>12. ASSUME Last(bytes) # "nl", NEW k \in 1..Len(bytes) PROVE bytes[k] # "nl"
  <2>1. CASE k <= Len(p)
    <3>1. k \in 1..Len(p)
      BY <2>1, <1>4, <1>7
    <3>2. p[k] # "nl" /\ bytes[k] = p[k]
      BY <3>1, <1>1, <1>7
    <3> QED BY <3>2
  <2>2. CASE k = Len(bytes)
    BY <2>2, <1>12 DEF Last
  <2>3. CASE ~ (k <= Len(p)) /\ k # Len(bytes)
    <3>1. k - Len(p) \in 1..(n - 1) /\ Len(p) + (k - Len(p)) = k /\ k - Len(p) \in 1..n
      BY <2>3, <1>4, <1>7
    <3> QED BY <3>1, <1>3, <1>5, <1>7
  <2> QED BY <2>1, <2>2, <2>3
<1>13. bytes # <<>> /\ Len(bytes) <= Size
  BY <1>3, <1>4, <1>7
<1> QED BY <1>2, <1>5, <1>7, <1>9, <1>10, <1>11, <1>12, <1>13 DEF bytes, part, left, n, said

\* A round ends a line, ends a fragment, or takes all there is.
LEMMA LineAt ==
  ASSUME NEW p, NEW d, NEW o, NEW g, LogAt(p, d, o, g), d # <<>>,
         Last(p \o SubSeq(d, 1, Taken(p, d))) = "nl"
  PROVE  LET bytes == p \o SubSeq(d, 1, Taken(p, d))
             left == SubSeq(d, Taken(p, d) + 1, Len(d))
         IN LogAt(<<>>, left, Append(o, Message(bytes)), g)
<1> DEFINE bytes == p \o SubSeq(d, 1, Taken(p, d))
           left == SubSeq(d, Taken(p, d) + 1, Len(d))
           said == SaidOf(o)
           m == Message(bytes)
<1>1. /\ bytes \in Seq(Byte) /\ left \in Seq(Byte) /\ bytes # <<>>
      /\ Len(bytes) <= Size /\ said \in Seq(Byte)
      /\ g = said \o bytes \o left
      /\ After(said \o bytes) = [pending |-> <<>>, out |-> Append(o, m)]
  BY RoundAt
<1>2. g \in Seq(Byte) /\ o \in Seq(Text)
      /\ (\A k \in DOMAIN o : Len(o[k].text) <= Size)
      /\ (Unicode(g) => Whole(said) /\ \A k \in DOMAIN o : Whole(o[k].text))
  BY DEF LogAt
<1>3. Last(bytes) = "nl"
  OBVIOUS
<1> HIDE DEF bytes, left
<1>4. m \in Text /\ Original(m) = bytes /\ Len(m.text) <= Len(bytes)
  BY <1>1, MessageFacts
<1>5. SaidOf(Append(o, m)) = said \o bytes
  BY <1>2, <1>4, SaidAppend
<1> HIDE DEF said
<1>6. Unicode(g) => Whole(said \o bytes) /\ Whole(m.text)
  BY <1>1, <1>2, <1>3, LineWhole
<1>7. Len(m.text) <= Size
  <2>1. Len(m.text) \in Nat /\ Len(bytes) \in Nat /\ Size \in Nat
    BY <1>1, <1>4, SizeAssumption DEF Text
  <2> QED BY <2>1, <1>1, <1>4
<1> HIDE DEF m
<1>8. said \o bytes \in Seq(Byte)
  BY <1>1, ConcatProperties
<1>9. (said \o bytes) \o <<>> = said \o bytes
  BY <1>8, ConcatEmptySeq
<1>10. LogAt(<<>>, left, Append(o, m), g)
  <2>1. Append(o, m) \in Seq(Text) /\ DOMAIN Append(o, m) = 1..(Len(o) + 1)
        /\ DOMAIN o = 1..Len(o) /\ Len(o) \in Nat
        /\ (\A k \in 1..Len(o) : Append(o, m)[k] = o[k]) /\ Append(o, m)[Len(o) + 1] = m
    BY <1>2, <1>4
  <2>2. \A k \in DOMAIN Append(o, m) : Len(Append(o, m)[k].text) <= Size
    BY <2>1, <1>2, <1>7
  <2>3. Unicode(g) => \A k \in DOMAIN Append(o, m) : Whole(Append(o, m)[k].text)
    BY <2>1, <1>2, <1>6
  <2>4. <<>> \in Seq(Byte) /\ Len(<<>>) < Size /\ DOMAIN <<>> = {}
    BY SizeAssumption
  <2>5. SaidOf(Append(o, m)) \o <<>> \o left = g
    BY <1>1, <1>5, <1>9
  <2>6. After(SaidOf(Append(o, m)) \o <<>>) = [pending |-> <<>>, out |-> Append(o, m)]
    BY <1>1, <1>5, <1>9
  <2> QED BY <1>1, <1>2, <1>5, <1>6, <2>1, <2>2, <2>3, <2>4, <2>5, <2>6 DEF LogAt
<1> QED BY <1>10 DEF bytes, left, m

\* The second: the rest of a full fragment stays pending.
LEMMA FragmentAt ==
  ASSUME NEW p, NEW d, NEW o, NEW g, LogAt(p, d, o, g), d # <<>>,
         Last(p \o SubSeq(d, 1, Taken(p, d))) # "nl",
         Len(p \o SubSeq(d, 1, Taken(p, d))) = Size
  PROVE  LET bytes == p \o SubSeq(d, 1, Taken(p, d))
             left == SubSeq(d, Taken(p, d) + 1, Len(d))
         IN LogAt(Fragment(bytes).rest, left, Append(o, Fragment(bytes).message), g)
<1> DEFINE bytes == p \o SubSeq(d, 1, Taken(p, d))
           left == SubSeq(d, Taken(p, d) + 1, Len(d))
           said == SaidOf(o)
           m == Fragment(bytes).message
           rest == Fragment(bytes).rest
<1>1. /\ bytes \in Seq(Byte) /\ left \in Seq(Byte)
      /\ (\A k \in 1..Len(bytes) : bytes[k] # "nl")
      /\ said \in Seq(Byte)
      /\ g = said \o bytes \o left
      /\ After(said \o bytes) = [pending |-> rest, out |-> Append(o, m)]
  BY RoundAt
<1>2. g \in Seq(Byte) /\ o \in Seq(Text)
      /\ (\A k \in DOMAIN o : Len(o[k].text) <= Size)
      /\ (Unicode(g) => Whole(said) /\ \A k \in DOMAIN o : Whole(o[k].text))
  BY DEF LogAt
<1>3. Last(bytes) # "nl" /\ Len(bytes) = Size
  OBVIOUS
<1> HIDE DEF bytes, left
<1>4. /\ m \in Text /\ rest \in Seq(Byte) /\ Len(rest) < 3
      /\ Original(m) \o rest = bytes
      /\ Len(m.text) <= Size
  BY <1>1, <1>3, FragmentFacts
<1>5. SaidOf(Append(o, m)) = said \o Original(m)
  BY <1>2, <1>4, SaidAppend
<1> HIDE DEF said
<1>6. Unicode(g) => Whole(said \o Original(m)) /\ Whole(m.text)
  BY <1>1, <1>2, <1>3, FragmentWhole
<1>7. Len(rest) < Size
  <2>1. Len(rest) \in Nat /\ Size \in Nat /\ Size > 3
    BY <1>4, SizeAssumption
  <2> QED BY <2>1, <1>4
<1>8. ASSUME NEW k \in DOMAIN rest PROVE rest[k] # "nl"
  <2>1. Original(m) \in Seq(Byte)
    BY <1>4 DEF Original, Text, Byte
  <2> HIDE DEF m, rest
  <2>2. k \in 1..Len(rest) /\ Len(rest) \in Nat /\ Len(Original(m)) \in Nat
    BY <1>4, <2>1
  <2>3. Len(bytes) = Len(Original(m)) + Len(rest) /\ bytes[Len(Original(m)) + k] = rest[k]
    BY <1>4, <2>1, <2>2
  <2>4. Len(Original(m)) + k \in 1..Len(bytes)
    BY <2>2, <2>3
  <2> QED BY <2>3, <2>4, <1>1
<1> DEFINE w == Original(m)
<1>9. w \in Seq(Byte)
  BY <1>4 DEF Original, Text, Byte
<1> HIDE DEF m, rest, w
<1>10. (said \o w) \o rest = said \o bytes
  <2>1. w \o rest = bytes
    BY <1>4 DEF w
  <2>2. (said \o w) \o rest = said \o (w \o rest)
    <3>1. rest \in Seq(Byte)
      BY <1>4
    <3>2. said \in Seq(Byte)
      BY <1>1
    <3> QED BY ONLY <3>1, <3>2, <1>9, ConcatAssociative
  <2> QED BY <2>1, <2>2
<1>11. LogAt(rest, left, Append(o, m), g)
  <2>1. Append(o, m) \in Seq(Text) /\ DOMAIN Append(o, m) = 1..(Len(o) + 1)
        /\ DOMAIN o = 1..Len(o) /\ Len(o) \in Nat
        /\ (\A k \in 1..Len(o) : Append(o, m)[k] = o[k]) /\ Append(o, m)[Len(o) + 1] = m
    BY <1>2, <1>4
  <2>2. \A k \in DOMAIN Append(o, m) : Len(Append(o, m)[k].text) <= Size
    BY <2>1, <1>2, <1>4
  <2>3. Unicode(g) => \A k \in DOMAIN Append(o, m) : Whole(Append(o, m)[k].text)
    BY <2>1, <1>2, <1>6
  <2>4. SaidOf(Append(o, m)) = said \o w
    BY <1>5 DEF w
  <2>5. SaidOf(Append(o, m)) \o rest \o left = g
    BY <1>1, <1>10, <2>4
  <2>6. After(SaidOf(Append(o, m)) \o rest) = [pending |-> rest, out |-> Append(o, m)]
    BY <1>1, <1>10, <2>4
  <2> QED BY <1>1, <1>2, <1>4, <1>5, <1>6, <1>7, <1>8, <2>1, <2>2, <2>3, <2>5, <2>6 DEF LogAt
<1> QED BY <1>11 DEF bytes, left, m, rest

\* The third: everything stays pending.
LEMMA HeldAt ==
  ASSUME NEW p, NEW d, NEW o, NEW g, LogAt(p, d, o, g), d # <<>>,
         Last(p \o SubSeq(d, 1, Taken(p, d))) # "nl",
         Len(p \o SubSeq(d, 1, Taken(p, d))) # Size
  PROVE  LET bytes == p \o SubSeq(d, 1, Taken(p, d))
             left == SubSeq(d, Taken(p, d) + 1, Len(d))
         IN LogAt(bytes, left, o, g)
<1> DEFINE bytes == p \o SubSeq(d, 1, Taken(p, d))
           left == SubSeq(d, Taken(p, d) + 1, Len(d))
<1>1. /\ bytes \in Seq(Byte) /\ left \in Seq(Byte)
      /\ Len(bytes) <= Size
      /\ (\A k \in 1..Len(bytes) : bytes[k] # "nl")
      /\ g = SaidOf(o) \o bytes \o left
      /\ After(SaidOf(o) \o bytes) = [pending |-> bytes, out |-> o]
  BY RoundAt
<1>2. Len(bytes) # Size
  OBVIOUS
<1> HIDE DEF bytes, left
<1>3. Len(bytes) < Size
  <2>1. Len(bytes) \in Nat /\ Size \in Nat
    BY <1>1, SizeAssumption
  <2>2. \A n \in Nat : n <= Size /\ n # Size => n < Size
    BY <2>1
  <2> QED BY <2>1, <2>2, <1>1, <1>2
<1>4. DOMAIN bytes = 1..Len(bytes)
  BY <1>1
<1>5. LogAt(bytes, left, o, g)
  BY <1>1, <1>3, <1>4 DEF LogAt
<1> QED BY <1>5 DEF bytes, left

-----------------------------------------------------------------------------
(* Theorems *)

\* LogInv, of a stream that has not ended, is LogAt.
LEMMA LogInvNow ==
  ASSUME LogInv, ~ended
  PROVE  LogAt(pending, data, out, given)
<1>1. /\ pending \in Seq(Byte) /\ data \in Seq(Byte) /\ given \in Seq(Byte) /\ out \in Seq(Text)
      /\ \A k \in DOMAIN pending : pending[k] # "nl"
  BY DEF LogInv, StreamInv
<1>2. /\ \A n \in DOMAIN out : Len(out[n].text) <= Size
      /\ Len(pending) < Size
      /\ Unicode(given) => \A n \in DOMAIN out : Whole(out[n].text)
  BY DEF LogInv, PiecesSound
<1>3. Said = SaidOf(out)
  BY DEF Said, SaidOf
<1>4. SaidOf(out) \o pending \o data = given
  BY <1>3 DEF LogInv, NothingLost
<1>5. SaidOf(out) \o pending \in Seq(Byte)
  <2>1. SaidOf(out) \in Seq(Byte)
    BY <1>1, SaidTyped
  <2> QED BY <2>1, <1>1, ConcatProperties
<1>6. SubSeq(given, 1, Len(given) - Len(data)) = SaidOf(out) \o pending
  <2> DEFINE a == SaidOf(out) \o pending
  <2>1. a \in Seq(Byte)
    BY <1>5
  <2>2. a \o data = given
    BY <1>4
  <2> HIDE DEF a
  <2>3. SubSeq(a \o data, 1, Len(a \o data) - Len(data)) = a
    BY <2>1, <1>1, TakenSoFar
  <2> QED BY <2>2, <2>3 DEF a
<1>7. After(SaidOf(out) \o pending) = [pending |-> pending, out |-> out]
  BY <1>6 DEF LogInv, CutsDoNotShow
<1>8. Unicode(given) => Whole(SaidOf(out))
  BY <1>3 DEF LogInv, CutInv
<1> QED BY <1>1, <1>2, <1>4, <1>7, <1>8 DEF LogAt

\* Likewise after a step.
LEMMA LogInvNext ==
  ASSUME ended' = FALSE, LogAt(pending', data', out', given')
  PROVE  LogInv'
<1> DEFINE p == pending'
           d == data'
           o == out'
           g == given'
           e == ended'
<1>1. /\ p \in Seq(Byte) /\ d \in Seq(Byte) /\ g \in Seq(Byte) /\ o \in Seq(Text)
      /\ Len(p) < Size
      /\ \A k \in DOMAIN p : p[k] # "nl"
      /\ SaidOf(o) \o p \o d = g
      /\ After(SaidOf(o) \o p) = [pending |-> p, out |-> o]
      /\ \A k \in DOMAIN o : Len(o[k].text) <= Size
      /\ Unicode(g) => Whole(SaidOf(o)) /\ \A k \in DOMAIN o : Whole(o[k].text)
  BY DEF LogAt
<1>2. Said' = SaidOf(o)
  BY DEF Said, SaidOf
<1>3. SubSeq(g, 1, Len(g) - Len(d)) = SaidOf(o) \o p
  <2> DEFINE a == SaidOf(o) \o p
  <2> HIDE DEF p, d, o, g
  <2>1. a \in Seq(Byte)
    <3>1. SaidOf(o) \in Seq(Byte)
      BY <1>1, SaidTyped
    <3> QED BY <3>1, <1>1, ConcatProperties
  <2>2. a \o d = g /\ d \in Seq(Byte)
    BY <1>1
  <2> HIDE DEF a
  <2>3. SubSeq(a \o d, 1, Len(a \o d) - Len(d)) = a
    BY <2>1, <2>2, TakenSoFar
  <2> QED BY <2>2, <2>3 DEF a
<1>4. StreamInv'
  BY <1>1 DEF StreamInv
<1>5. NothingLost'
  BY <1>1, <1>2 DEF NothingLost
<1>6. CutsDoNotShow'
  BY <1>1, <1>3 DEF CutsDoNotShow
<1>7. CutInv'
  BY <1>1, <1>2 DEF CutInv
<1>8. PiecesSound'
  BY <1>1 DEF PiecesSound
<1> QED BY <1>4, <1>5, <1>6, <1>7, <1>8 DEF LogInv

\* The invariant holds of a stream nothing has come of yet.
LEMMA InitLog == Init => LogInv
<1> SUFFICES ASSUME Init PROVE LogInv
  OBVIOUS
<1>1. pending = <<>> /\ data = <<>> /\ out = <<>> /\ given = <<>> /\ ended = FALSE
  BY DEF Init
<1>2. Said = <<>>
  <2>1. [text |-> <<>>, nl |-> FALSE] \in Text /\ <<>> \in Seq(Text)
    BY DEF Text
  <2>2. SaidOf(<<>>) = <<>>
    BY <2>1, SaidAppend
  <2> QED BY <2>2, <1>1 DEF Said, SaidOf
<1>3. StreamInv
  <2>1. <<>> \in Seq(Byte) /\ <<>> \in Seq(Text) /\ DOMAIN <<>> = {}
    BY EmptySeq
  <2> QED BY <1>1, <2>1 DEF StreamInv
<1>4. NothingLost
  BY <1>1, <1>2, ConcatEmptySeq, EmptySeq DEF NothingLost
<1>5. CutsDoNotShow
  <2>1. <<>> \in Seq(Byte) /\ "x" \in Byte
    BY DEF Byte
  <2>2. After(<<>>) = Start
    BY <2>1, AfterAppend
  <2>3. SubSeq(given, 1, Len(given) - Len(data)) = <<>>
    BY <1>1, SubSeqEmpty
  <2> QED BY <1>1, <2>2, <2>3 DEF CutsDoNotShow, Start
<1>6. CutInv
  <2>1. <<>> \in Seq(Byte) /\ Len(<<>>) = 0
    OBVIOUS
  <2>2. Unicode(<<>>)
    BY <2>1 DEF Unicode
  <2>3. Whole(<<>>)
    <3> DEFINE s == <<>>
    <3>1. s \in Seq(Byte) /\ Unicode(s) /\ 1..Len(s) = {}
      BY <2>1, <2>2
    <3> HIDE DEF s
    <3>2. Whole(s)
      BY <3>1, WholeMeans
    <3> QED BY <3>2 DEF s
  <2> QED BY <1>2, <2>3 DEF CutInv
<1>7. PiecesSound
  BY <1>1, SizeAssumption DEF PiecesSound
<1> QED BY <1>3, <1>4, <1>5, <1>6, <1>7 DEF LogInv

\* A write keeps it.
LEMMA WriteStep ==
  ASSUME LogInv, NEW bytes \in Seq(Byte), Write(bytes)
  PROVE  LogInv'
<1>1. ~ended /\ data = <<>> /\ data' = bytes /\ given' = given \o bytes
      /\ pending' = pending /\ out' = out /\ ended' = ended
  BY DEF Write
<1>2. ended' = FALSE
  BY <1>1 DEF LogInv, StreamInv
<1>3. LogAt(pending, <<>>, out, given)
  BY <1>1, LogInvNow
<1>4. LogAt(pending, bytes, out, given \o bytes)
  BY <1>3, WriteAt
<1>5. LogAt(pending', data', out', given')
  BY <1>1, <1>4
<1> QED BY <1>2, <1>5, LogInvNext

\* A round keeps it.
LEMMA RoundStep ==
  ASSUME LogInv, Round
  PROVE  LogInv'
<1> DEFINE bytes == pending \o SubSeq(data, 1, Taken(pending, data))
           left == SubSeq(data, Taken(pending, data) + 1, Len(data))
<1>1. data # <<>> /\ data' = left /\ given' = given /\ ended' = ended
  BY DEF Round
<1>2. ended = FALSE
  BY <1>1 DEF LogInv, StreamInv
<1>3. LogAt(pending, data, out, given)
  BY <1>2, LogInvNow
<1>4. CASE /\ Last(bytes) = "nl"
           /\ pending' = <<>>
           /\ out' = Append(out, Message(bytes))
  <2>1. LogAt(<<>>, left, Append(out, Message(bytes)), given)
    BY <1>1, <1>3, <1>4, LineAt
  <2>2. LogAt(pending', data', out', given')
    BY <2>1, <1>1, <1>4
  <2> QED BY <2>2, <1>1, <1>2, LogInvNext
<1>5. CASE /\ Last(bytes) # "nl"
           /\ Len(bytes) # Size
           /\ pending' = bytes
           /\ UNCHANGED out
  <2>1. LogAt(bytes, left, out, given)
    BY <1>1, <1>3, <1>5, HeldAt
  <2>2. LogAt(pending', data', out', given')
    BY <2>1, <1>1, <1>5
  <2> QED BY <2>2, <1>1, <1>2, LogInvNext
<1>6. CASE /\ Last(bytes) # "nl"
           /\ Len(bytes) = Size
           /\ pending' = Fragment(bytes).rest
           /\ out' = Append(out, Fragment(bytes).message)
  <2>1. LogAt(Fragment(bytes).rest, left, Append(out, Fragment(bytes).message), given)
    BY <1>1, <1>3, <1>6, FragmentAt
  <2>2. LogAt(pending', data', out', given')
    BY <2>1, <1>1, <1>6
  <2> QED BY <2>2, <1>1, <1>2, LogInvNext
<1> QED BY <1>4, <1>5, <1>6 DEF Round

\* The last message is sent, and nothing more comes.
LEMMA FlushStep ==
  ASSUME LogInv, Flush
  PROVE  LogInv'
<1> DEFINE m == Message(pending)
<1>1. /\ ended = FALSE /\ data = <<>> /\ ended' = TRUE /\ pending' = <<>>
      /\ data' = data /\ given' = given
      /\ out' = IF pending # <<>> THEN Append(out, m) ELSE out
  BY DEF Flush, LogInv, StreamInv
<1>2. /\ pending \in Seq(Byte) /\ given \in Seq(Byte) /\ out \in Seq(Text) /\ Len(pending) < Size
      /\ SaidOf(out) \o pending \o <<>> = given
      /\ \A k \in DOMAIN out : Len(out[k].text) <= Size
      /\ Unicode(given) => \A k \in DOMAIN out : Whole(out[k].text)
  BY <1>1, LogInvNow DEF LogAt
<1>3. m \in Text /\ Original(m) = pending /\ Len(m.text) <= Len(pending)
  BY <1>2, MessageFacts
<1>4. Len(m.text) <= Size
  <2>1. Len(m.text) \in Nat /\ Len(pending) \in Nat /\ Size \in Nat
    BY <1>2, <1>3, SizeAssumption DEF Text
  <2> QED BY <2>1, <1>2, <1>3
<1> HIDE DEF m
<1>5. SaidOf(out) \in Seq(Byte)
  BY <1>2, SaidTyped
<1>6. SaidOf(out) \o pending = given
  <2>1. SaidOf(out) \o pending \in Seq(Byte)
    BY <1>2, <1>5, ConcatProperties
  <2> QED BY <2>1, <1>2, ConcatEmptySeq
<1>7. SaidOf(out') = given /\ out' \in Seq(Text)
  <2>1. CASE pending = <<>>
    BY <2>1, <1>1, <1>2, <1>5, <1>6, ConcatEmptySeq
  <2>2. CASE pending # <<>>
    <3>1. SaidOf(Append(out, m)) = SaidOf(out) \o Original(m)
      BY <1>2, <1>3, SaidAppend
    <3> QED BY <2>2, <3>1, <1>1, <1>2, <1>3, <1>6
  <2> QED BY <2>1, <2>2
<1>8. Said' = given
  BY <1>7 DEF Said, SaidOf
<1>9. StreamInv'
  BY <1>1, <1>2, <1>7 DEF StreamInv
<1>10. NothingLost'
  <2>1. given \o <<>> = given
    BY <1>2, ConcatEmptySeq
  <2> QED BY <1>1, <1>8, <2>1 DEF NothingLost
<1>11. CutsDoNotShow' /\ CutInv'
  BY <1>1 DEF CutsDoNotShow, CutInv
<1>12. PiecesSound'
  <2>1. Len(<<>>) < Size
    BY SizeAssumption
  <2>2. CASE pending = <<>>
    BY <2>1, <2>2, <1>1, <1>2 DEF PiecesSound
  <2>3. CASE pending # <<>>
    <3>1. out' = Append(out, m)
      BY <2>3, <1>1
    <3>2. /\ DOMAIN out' = 1..(Len(out) + 1) /\ Len(out') = Len(out) + 1
          /\ DOMAIN out = 1..Len(out) /\ Len(out) \in Nat
          /\ (\A k \in 1..Len(out) : out'[k] = out[k]) /\ out'[Len(out) + 1] = m
      BY <3>1, <1>2, <1>3
    <3>3. ASSUME NEW k \in DOMAIN out' PROVE Len(out'[k].text) <= Size
      <4>1. CASE k = Len(out) + 1
        BY <3>2, <4>1, <1>4
      <4>2. CASE k # Len(out) + 1
        <5>1. k \in 1..Len(out)
          BY <3>2, <4>2
        <5> QED BY <3>2, <5>1, <1>2
      <4> QED BY <4>1, <4>2
    <3>4. Unicode(given) => \A k \in DOMAIN out' : Whole(out'[k].text) \/ k = Len(out')
      BY <3>2, <1>2
    <3> QED BY <2>1, <3>3, <3>4, <1>1 DEF PiecesSound
  <2> QED BY <2>2, <2>3
<1> QED BY <1>9, <1>10, <1>11, <1>12 DEF LogInv

\* Whatever is written, in whatever writes, LogInv holds.
THEOREM AlwaysLog == Spec => []LogInv
<1>1. LogInv /\ [Next]_vars => LogInv'
  <2> SUFFICES ASSUME LogInv, [Next]_vars PROVE LogInv'
    OBVIOUS
  <2>1. ASSUME NEW n \in 1..(MaxGiven - Len(given)), NEW bytes \in [1..n -> Byte], Write(bytes)
        PROVE  LogInv'
    <3>1. Len(given) \in Nat
      BY DEF LogInv, StreamInv
    <3>2. n \in Nat
      BY <3>1, BoundAssumption
    <3>3. bytes \in Seq(Byte)
      BY <3>2
    <3> QED BY <3>3, <2>1, WriteStep
  <2>2. CASE Round
    BY <2>2, RoundStep
  <2>3. CASE Flush
    BY <2>3, FlushStep
  <2>4. CASE UNCHANGED vars
    <3>1. pending' = pending /\ data' = data /\ out' = out /\ given' = given /\ ended' = ended
      BY <2>4 DEF vars
    <3>2. Said' = Said
      BY <3>1 DEF Said
    <3> QED BY <3>1, <3>2 DEF LogInv, StreamInv, NothingLost, CutsDoNotShow, CutInv, PiecesSound
  <2> QED BY <2>1, <2>2, <2>3, <2>4 DEF Next
<1> QED BY <1>1, InitLog, PTL DEF Spec

\* No byte of a stream is lost, doubled or moved between the writes and the messages.
THEOREM EveryByteSaid == Spec => []NothingLost
<1>1. LogInv => NothingLost
  BY DEF LogInv
<1> QED BY <1>1, AlwaysLog, PTL

\* How the stream is cut into writes does not show in the messages.
THEOREM CutsNeverShow == Spec => []CutsDoNotShow
<1>1. LogInv => CutsDoNotShow
  BY DEF LogInv
<1> QED BY <1>1, AlwaysLog, PTL

\* A piece is at most a fragment long, and of a UTF-8 stream it splits no character.
THEOREM PiecesAlwaysSound == Spec => []PiecesSound
<1>1. LogInv => PiecesSound
  BY DEF LogInv
<1> QED BY <1>1, AlwaysLog, PTL

=============================================================================
