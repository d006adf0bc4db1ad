--------------------------- MODULE OutboundProofs ---------------------------
(***************************************************************************)
(* Proofs about the outbound side of the message bus.                      *)
(*                                                                         *)
(* Most of the argument is about sequences: what waits for a channel is    *)
(* spread over its lane's backlog, the fetched message and the queue, and  *)
(* the dispatcher gives backlogs back to the queue.  LineMove says what a  *)
(* step may do to the lines seen through Of(); PlacesOK and JoinCounts     *)
(* follow from it, and so does the refinement of ChannelLines.             *)
(*                                                                         *)
(* The actions of a lane's task are brought into four forms first (Keeps,  *)
(* Leaves, Begins, Vanishes), those of the dispatcher into one (Managing), *)
(* and the invariant IInv is shown to be kept by each form.                *)
(***************************************************************************)
EXTENDS Outbound, SequenceTheorems, FiniteSetTheorems, FunctionTheorems,
        NaturalsInduction, WellFoundedInduction, TLAPS

-----------------------------------------------------------------------------
(* Sequences                                                               *)

\* A set of natural numbers that has zero and every successor has all of them.
LEMMA Induction ==
    ASSUME NEW S \in SUBSET Nat, 0 \in S, \A n \in S : n + 1 \in S
    PROVE  S = Nat
<1>. DEFINE R == OpToRel(<, Nat)
<1>1. IsWellFoundedOn(R, Nat)
  BY NatLessThanWellFounded
<1>2. \A x, y \in Nat : <<y, x>> \in R <=> y < x
  BY DEF OpToRel
<1>. HIDE DEF R
<1>. SUFFICES ASSUME Nat \ S # {} PROVE FALSE
  OBVIOUS
<1>3. PICK x \in Nat \ S : \A y \in Nat \ S : ~(<<y, x>> \in R)
  BY <1>1, WFMin
<1>4. x \in Nat /\ x # 0 /\ x - 1 \in Nat /\ x - 1 < x /\ x = (x - 1) + 1
  BY <1>3
<1>5. x - 1 \in S
  BY <1>2, <1>3, <1>4
<1>. QED BY <1>3, <1>4, <1>5

\* A function on 1..n is a sequence of length n.
LEMMA FunctionSeq ==
    ASSUME NEW M, NEW n \in Nat, NEW f \in [1..n -> M]
    PROVE  f \in Seq(M) /\ Len(f) = n
<1>1. f \in Seq(M)
  BY SeqDef
<1>2. Len(f) \in Nat /\ 1..Len(f) = 1..n
  BY <1>1, LenProperties
<1>3. Len(f) = n
  <2>1. CASE n = 0
    BY <1>2, <2>1
  <2>2. CASE n # 0 /\ Len(f) # n
    <3>1. n \in 1..n /\ (Len(f) # 0 => Len(f) \in 1..Len(f)) /\ 1 \in 1..n
      BY <1>2, <2>2
    <3>. QED BY <1>2, <2>2, <3>1
  <2>. QED BY <2>1, <2>2
<1>. QED BY <1>1, <1>3

\* What FlattenSeq computes: the concatenation of the first i sequences.
Flattens(ss, f) ==
    f = [i \in 1..Len(ss) |-> IF i = 1 THEN ss[i] ELSE f[i - 1] \o ss[i]]

\* A function of this kind exists for every sequence of sequences.
LEMMA FlattensExists ==
    ASSUME NEW M, NEW ss \in Seq(Seq(M))
    PROVE  \E f \in [1..Len(ss) -> Seq(M)] : Flattens(ss, f)
<1>. DEFINE Good(n, f) == /\ f \in [1..n -> Seq(M)]
                          /\ \A i \in 1..n : f[i] = IF i = 1 THEN ss[i] ELSE f[i - 1] \o ss[i]
            S == {n \in Nat : n <= Len(ss) => \E f : Good(n, f)}
<1>1. Len(ss) \in Nat /\ \A i \in 1..Len(ss) : ss[i] \in Seq(M)
  BY LenProperties, ElementOfSeq
<1>2. 0 \in S
  <2>1. [i \in 1..0 |-> <<>>] \in [1..0 -> Seq(M)] /\ \A i \in 1..0 : FALSE
    OBVIOUS
  <2>2. Good(0, [i \in 1..0 |-> <<>>])
    BY <2>1
  <2>. QED BY <2>2
<1>3. ASSUME NEW n \in S PROVE n + 1 \in S
  <2>. n \in Nat /\ (n <= Len(ss) => \E f : Good(n, f))
    <3>. HIDE DEF Good
    <3>. QED BY <1>3
  <2>. SUFFICES ASSUME n + 1 <= Len(ss) PROVE \E f : Good(n + 1, f)
    <3>. HIDE DEF Good
    <3>. QED OBVIOUS
  <2>. n <= Len(ss)
    BY <1>1
  <2>1. PICK f : Good(n, f)
    <3>. HIDE DEF Good
    <3>. QED OBVIOUS
  <2>. DEFINE g == [i \in 1..(n + 1) |->
                      IF i <= n THEN f[i] ELSE IF i = 1 THEN ss[i] ELSE f[i - 1] \o ss[i]]
  <2>2. n \in Nat /\ n + 1 \in 1..Len(ss) /\ ss[n + 1] \in Seq(M)
    BY <1>1
  <2>3. n # 0 => f[n] \in Seq(M) /\ f[n] \o ss[n + 1] \in Seq(M)
    <3>. SUFFICES ASSUME n # 0 PROVE f[n] \in Seq(M) /\ f[n] \o ss[n + 1] \in Seq(M)
      OBVIOUS
    <3>1. n \in 1..n
      BY <2>2
    <3>2. f[n] \in Seq(M)
      BY <2>1, <3>1
    <3>. QED BY <2>2, <3>2, ConcatProperties
  <2>4. g \in [1..(n + 1) -> Seq(M)]
    <3>. SUFFICES ASSUME NEW i \in 1..(n + 1) PROVE g[i] \in Seq(M)
      OBVIOUS
    <3>1. CASE i <= n
      BY <2>1, <2>2, <3>1
    <3>2. CASE ~(i <= n)
      <4>1. i = n + 1
        BY <2>2, <3>2
      <4>. QED BY <2>2, <2>3, <3>2, <4>1
    <3>. QED BY <3>1, <3>2
  <2>5. ASSUME NEW i \in 1..(n + 1) PROVE g[i] = IF i = 1 THEN ss[i] ELSE g[i - 1] \o ss[i]
    <3>1. i # 1 => i - 1 \in 1..n /\ i - 1 \in 1..(n + 1) /\ g[i - 1] = f[i - 1]
      BY <2>2
    <3>2. i <= n => i \in 1..n
      BY <2>2
    <3>. QED BY <2>1, <3>1, <3>2
  <2>6. Good(n + 1, g)
    BY <2>4, <2>5
  <2>. QED BY <2>6
<1>4. S = Nat
  <2>. HIDE DEF S
  <2>1. S \in SUBSET Nat
    BY DEF S
  <2>. QED BY <1>2, <1>3, <2>1, Induction
<1>5. PICK f : Good(Len(ss), f)
  <2>. HIDE DEF Good
  <2>1. Len(ss) \in S /\ Len(ss) <= Len(ss)
    BY <1>1, <1>4
  <2>. QED BY <2>1
<1>6. Flattens(ss, f)
  BY <1>5 DEF Flattens
<1>. QED BY <1>5, <1>6

\* FlattenSeq returns the last value of such a function.
LEMMA FlattenByFunction ==
    ASSUME NEW M, NEW ss \in Seq(Seq(M)), ss # <<>>
    PROVE  \E f : Flattens(ss, f) /\ FlattenSeq(ss) = f[Len(ss)]
<1>1. Len(ss) # 0
  BY EmptySeq, LenProperties
<1>2. \E f : Flattens(ss, f)
  BY FlattensExists
<1>. QED BY <1>1, <1>2 DEF FlattenSeq, Flattens

\* The first n members are the same.
Common(ss, tt, n) == n <= Len(ss) /\ n <= Len(tt) /\ \A i \in 1..n : ss[i] = tt[i]

\* Functions of this kind agree on a common prefix of the sequences.
LEMMA FlattensAgree ==
    ASSUME NEW M, NEW ss \in Seq(Seq(M)), NEW tt \in Seq(Seq(M)), NEW n \in Nat,
           Common(ss, tt, n), NEW f, NEW g, Flattens(ss, f), Flattens(tt, g)
    PROVE  \A i \in 1..n : f[i] = g[i]
<1>. DEFINE S == {i \in Nat : i \in 1..n => f[i] = g[i]}
<1>1. Len(ss) \in Nat /\ Len(tt) \in Nat
  BY LenProperties
<1>2. 0 \in S
  OBVIOUS
<1>3. ASSUME NEW i \in S PROVE i + 1 \in S
  <2>. SUFFICES ASSUME i + 1 \in 1..n PROVE f[i + 1] = g[i + 1]
    OBVIOUS
  <2>1. i \in Nat /\ i + 1 \in 1..Len(ss) /\ i + 1 \in 1..Len(tt) /\ ss[i + 1] = tt[i + 1]
    BY <1>1 DEF Common
  <2>2. f[i + 1] = IF i + 1 = 1 THEN ss[i + 1] ELSE f[i] \o ss[i + 1]
    <3>. DEFINE h == [j \in 1..Len(ss) |-> IF j = 1 THEN ss[j] ELSE f[j - 1] \o ss[j]]
    <3>1. f = h
      BY DEF Flattens
    <3>2. h[i + 1] = IF i + 1 = 1 THEN ss[i + 1] ELSE f[i] \o ss[i + 1]
      BY <2>1
    <3>. QED BY <3>1, <3>2
  <2>3. g[i + 1] = IF i + 1 = 1 THEN tt[i + 1] ELSE g[i] \o tt[i + 1]
    <3>. DEFINE h == [j \in 1..Len(tt) |-> IF j = 1 THEN tt[j] ELSE g[j - 1] \o tt[j]]
    <3>1. g = h
      BY DEF Flattens
    <3>2. h[i + 1] = IF i + 1 = 1 THEN tt[i + 1] ELSE g[i] \o tt[i + 1]
      BY <2>1
    <3>. QED BY <3>1, <3>2
  <2>4. i + 1 # 1 => i \in 1..n
    BY <2>1
  <2>. QED BY <1>3, <2>1, <2>2, <2>3, <2>4
<1>4. S = Nat
  <2>. HIDE DEF S
  <2>1. S \in SUBSET Nat
    BY DEF S
  <2>. QED BY <1>2, <1>3, <2>1, Induction
<1>5. ASSUME NEW i \in 1..n PROVE f[i] = g[i]
  <2>1. i \in S
    <3>. HIDE DEF S
    <3>. QED BY <1>4
  <2>. QED BY <2>1
<1>. QED BY <1>5

\* Flattening no sequences gives none.
LEMMA FlattenEmpty == FlattenSeq(<<>>) = <<>>
BY DEF FlattenSeq

\* One more sequence is appended to what the others give.
LEMMA FlattenAppend ==
    ASSUME NEW M, NEW ss \in Seq(Seq(M)), NEW s \in Seq(M)
    PROVE  FlattenSeq(ss) \in Seq(M) /\ FlattenSeq(Append(ss, s)) = FlattenSeq(ss) \o s
<1>. DEFINE tt == Append(ss, s)
            n == Len(ss)
<1>1. /\ n \in Nat /\ tt \in Seq(Seq(M)) /\ tt # <<>> /\ Len(tt) = n + 1
      /\ tt[n + 1] = s /\ \A i \in 1..n : tt[i] = ss[i]
  BY AppendProperties, LenProperties
<1>. HIDE DEF tt
<1>2. PICK g : Flattens(tt, g) /\ FlattenSeq(tt) = g[n + 1]
  BY <1>1, FlattenByFunction
<1>3. g[n + 1] = IF n + 1 = 1 THEN s ELSE g[n] \o s
  <2>. DEFINE h == [j \in 1..(n + 1) |-> IF j = 1 THEN tt[j] ELSE g[j - 1] \o tt[j]]
  <2>1. g = h
    BY <1>1, <1>2 DEF Flattens
  <2>2. h[n + 1] = IF n + 1 = 1 THEN s ELSE g[n] \o s
    BY <1>1
  <2>. QED BY <2>1, <2>2
<1>4. CASE ss = <<>>
  <2>1. n = 0 /\ FlattenSeq(ss) = <<>> /\ <<>> \in Seq(M) /\ <<>> \o s = s
    BY <1>4, FlattenEmpty, EmptySeq, ConcatEmptySeq
  <2>. QED BY <1>2, <1>3, <2>1 DEF tt
<1>5. CASE ss # <<>>
  <2>1. PICK f : Flattens(ss, f) /\ FlattenSeq(ss) = f[n]
    BY <1>5, FlattenByFunction
  <2>2. PICK e \in [1..n -> Seq(M)] : Flattens(ss, e)
    BY FlattensExists
  <2>3. n # 0 /\ n \in 1..n
    BY <1>1, <1>5, EmptySeq
  <2>4. f[n] = e[n]
    <3>1. Common(ss, ss, n)
      BY <1>1 DEF Common
    <3>2. \A i \in 1..n : f[i] = e[i]
      BY <1>1, <2>1, <2>2, <3>1, FlattensAgree
    <3>. QED BY <2>3, <3>2
  <2>5. f[n] = g[n]
    <3>1. Common(ss, tt, n)
      BY <1>1 DEF Common
    <3>2. n \in Nat /\ tt \in Seq(Seq(M)) /\ Flattens(ss, f) /\ Flattens(tt, g)
      BY <1>1, <1>2, <2>1
    <3>3. \A i \in 1..n : f[i] = g[i]
      BY <3>1, <3>2, FlattensAgree
    <3>. QED BY <2>3, <3>3
  <2>6. FlattenSeq(ss) \in Seq(M)
    BY <2>1, <2>2, <2>3, <2>4
  <2>7. FlattenSeq(tt) = FlattenSeq(ss) \o s
    BY <1>1, <1>2, <1>3, <2>1, <2>3, <2>5
  <2>. QED BY <2>6, <2>7 DEF tt
<1>. QED BY <1>4, <1>5

\* Flattening commutes with concatenation.
LEMMA FlattenConcat ==
    ASSUME NEW M, NEW ss \in Seq(Seq(M)), NEW tt \in Seq(Seq(M))
    PROVE  FlattenSeq(ss \o tt) = FlattenSeq(ss) \o FlattenSeq(tt)
<1>. DEFINE Lengths == {n \in Nat : \A uu \in Seq(Seq(M)) :
                    Len(uu) = n => FlattenSeq(ss \o uu) = FlattenSeq(ss) \o FlattenSeq(uu)}
<1>1. \A uu \in Seq(Seq(M)) : FlattenSeq(uu) \in Seq(M)
  BY FlattenAppend, EmptySeq
<1>0. \A x, y, z \in Seq(M) : (x \o y) \o z = x \o (y \o z)
  BY SMTT(30), ConcatAssociative
<1>2. 0 \in Lengths
  <2>. SUFFICES ASSUME NEW uu \in Seq(Seq(M)), Len(uu) = 0
                PROVE  FlattenSeq(ss \o uu) = FlattenSeq(ss) \o FlattenSeq(uu)
    OBVIOUS
  <2>1. uu = <<>>
    BY EmptySeq
  <2>. QED BY <1>1, <2>1, FlattenEmpty, ConcatEmptySeq
<1>3. ASSUME NEW n \in Lengths PROVE n + 1 \in Lengths
  <2>. SUFFICES ASSUME NEW uu \in Seq(Seq(M)), Len(uu) = n + 1
                PROVE  FlattenSeq(ss \o uu) = FlattenSeq(ss) \o FlattenSeq(uu)
    OBVIOUS
  <2>1. uu # <<>>
    BY EmptySeq
  <2>2. PICK vv \in Seq(Seq(M)), v \in Seq(M) : uu = Append(vv, v)
    BY <2>1, SequenceEmptyOrAppend
  <2>3. Len(vv) = n
    <3>1. Len(vv) \in Nat /\ Len(uu) = Len(vv) + 1
      BY <2>2, AppendProperties, LenProperties
    <3>. QED BY <3>1
  <2>4. FlattenSeq(ss \o vv) = FlattenSeq(ss) \o FlattenSeq(vv)
    BY <1>3, <2>3
  <2>5. /\ ss \o vv \in Seq(Seq(M)) /\ <<v>> \in Seq(Seq(M))
        /\ uu = vv \o <<v>> /\ ss \o uu = (ss \o vv) \o <<v>>
        /\ (ss \o vv) \o <<v>> = Append(ss \o vv, v)
    <3>1. ss \o vv \in Seq(Seq(M)) /\ <<v>> \in Seq(Seq(M))
      BY ConcatProperties
    <3>2. uu = vv \o <<v>> /\ Append(ss \o vv, v) = (ss \o vv) \o <<v>>
      BY <2>2, <3>1, AppendIsConcat
    <3>3. ss \o (vv \o <<v>>) = (ss \o vv) \o <<v>>
      BY SMTT(30), <3>1, ConcatAssociative
    <3>. QED BY <3>1, <3>2, <3>3
  <2>6. FlattenSeq(ss \o uu) = FlattenSeq(ss \o vv) \o v
    <3>1. FlattenSeq(Append(ss \o vv, v)) = FlattenSeq(ss \o vv) \o v
      BY <2>5, FlattenAppend
    <3>. QED BY <2>5, <3>1
  <2>7. FlattenSeq(uu) = FlattenSeq(vv) \o v
    BY <2>2, FlattenAppend
  <2>8. (FlattenSeq(ss) \o FlattenSeq(vv)) \o v = FlattenSeq(ss) \o (FlattenSeq(vv) \o v)
    <3>1. FlattenSeq(ss) \in Seq(M) /\ FlattenSeq(vv) \in Seq(M)
      BY <1>1
    <3>. QED BY <1>0, <3>1
  <2>. QED BY <2>4, <2>6, <2>7, <2>8
<1>4. Lengths = Nat
  <2>. HIDE DEF Lengths
  <2>1. Lengths \in SUBSET Nat
    BY DEF Lengths
  <2>. QED BY <1>2, <1>3, <2>1, Induction
<1>5. Len(tt) \in Nat
  BY LenProperties
<1>. QED BY <1>4, <1>5

-----------------------------------------------------------------------------
(* What waits for a channel                                                *)

\* One message as a sequence of the messages for ch.
Bit(ch, m) == IF ChannelOf[m] = ch THEN <<m>> ELSE <<>>

\* The sequences that Of puts together.
Bits(ch, s) == [i \in DOMAIN s |-> Bit(ch, s[i])]

\* They are sequences of messages.
LEMMA BitsType ==
    ASSUME NEW ch, NEW s \in Seq(Messages)
    PROVE  /\ Bits(ch, s) \in Seq(Seq(Messages)) /\ Len(Bits(ch, s)) = Len(s)
           /\ Of(ch, s) = FlattenSeq(Bits(ch, s)) /\ Of(ch, s) \in Seq(Messages)
<1>1. Len(s) \in Nat /\ DOMAIN s = 1..Len(s) /\ \A i \in 1..Len(s) : s[i] \in Messages
  BY LenProperties, ElementOfSeq
<1>2. \A m \in Messages : Bit(ch, m) \in Seq(Messages)
  BY DEF Bit
<1>3. Bits(ch, s) \in [1..Len(s) -> Seq(Messages)]
  BY <1>1, <1>2 DEF Bits
<1>4. Bits(ch, s) \in Seq(Seq(Messages)) /\ Len(Bits(ch, s)) = Len(s)
  BY <1>1, <1>3, FunctionSeq
<1>5. Of(ch, s) = FlattenSeq(Bits(ch, s))
  BY DEF Of, Bits, Bit
<1>6. FlattenSeq(Bits(ch, s)) \in Seq(Messages)
  BY <1>4, FlattenAppend, EmptySeq
<1>. QED BY <1>4, <1>5, <1>6

\* Of distributes over concatenation.
LEMMA OfConcat ==
    ASSUME NEW ch, NEW s \in Seq(Messages), NEW t \in Seq(Messages)
    PROVE  s \o t \in Seq(Messages) /\ Of(ch, s \o t) = Of(ch, s) \o Of(ch, t)
<1>1. /\ s \o t \in Seq(Messages) /\ Len(s) \in Nat /\ Len(t) \in Nat
      /\ Len(s \o t) = Len(s) + Len(t)
      /\ \A i \in 1..(Len(s) + Len(t)) :
            (s \o t)[i] = IF i <= Len(s) THEN s[i] ELSE t[i - Len(s)]
  BY ConcatProperties, LenProperties
<1>2. /\ DOMAIN s = 1..Len(s) /\ DOMAIN t = 1..Len(t)
      /\ DOMAIN (s \o t) = 1..(Len(s) + Len(t))
  BY <1>1, LenProperties
<1>. DEFINE b == Bits(ch, s)
            c == Bits(ch, t)
            d == Bits(ch, s \o t)
<1>3. /\ b \in Seq(Seq(Messages)) /\ Len(b) = Len(s)
      /\ c \in Seq(Seq(Messages)) /\ Len(c) = Len(t)
      /\ d \in Seq(Seq(Messages)) /\ Len(d) = Len(s) + Len(t)
  BY <1>1, BitsType
<1>4. /\ b \o c \in Seq(Seq(Messages)) /\ Len(b \o c) = Len(s) + Len(t)
      /\ \A i \in 1..(Len(s) + Len(t)) :
            (b \o c)[i] = IF i <= Len(s) THEN b[i] ELSE c[i - Len(s)]
  <2>1. /\ b \in Seq(Seq(Messages)) /\ Len(b) = Len(s)
        /\ c \in Seq(Seq(Messages)) /\ Len(c) = Len(t)
    BY <1>3
  <2>. HIDE DEF b, c
  <2>2. /\ b \o c \in Seq(Seq(Messages)) /\ Len(b \o c) = Len(b) + Len(c)
        /\ \A i \in 1..(Len(b) + Len(c)) :
              (b \o c)[i] = IF i <= Len(b) THEN b[i] ELSE c[i - Len(b)]
    BY <2>1, ConcatProperties
  <2>. QED BY <2>1, <2>2
<1>5. ASSUME NEW i \in 1..(Len(s) + Len(t)) PROVE d[i] = (b \o c)[i]
  <2>1. d[i] = Bit(ch, (s \o t)[i])
    BY <1>2 DEF Bits
  <2>2. CASE i <= Len(s)
    <3>1. i \in 1..Len(s)
      BY <1>1, <2>2
    <3>2. b[i] = Bit(ch, s[i])
      BY <1>2, <3>1 DEF Bits
    <3>. QED BY <1>1, <1>4, <2>1, <2>2, <3>2
  <2>3. CASE ~(i <= Len(s))
    <3>1. i - Len(s) \in 1..Len(t)
      BY <1>1, <2>3
    <3>2. c[i - Len(s)] = Bit(ch, t[i - Len(s)])
      BY <1>2, <3>1 DEF Bits
    <3>. QED BY <1>1, <1>4, <2>1, <2>3, <3>2
  <2>. QED BY <2>2, <2>3
<1>6. d = b \o c
  <2>. HIDE DEF b, c, d
  <2>. QED BY <1>3, <1>4, <1>5, SeqEqual
<1>7. FlattenSeq(b \o c) = FlattenSeq(b) \o FlattenSeq(c)
  <2>. HIDE DEF b, c
  <2>. QED BY <1>3, FlattenConcat
<1>. QED BY <1>1, <1>6, <1>7, BitsType

\* Of no messages.
LEMMA OfEmpty == ASSUME NEW ch PROVE Of(ch, <<>>) = <<>>
<1>1. Bits(ch, <<>>) \in Seq(Seq(Messages)) /\ Len(Bits(ch, <<>>)) = 0
  BY BitsType, EmptySeq
<1>2. Bits(ch, <<>>) = <<>>
  BY <1>1, EmptySeq
<1>. QED BY <1>2, BitsType, EmptySeq, FlattenEmpty

\* Of one message.
LEMMA OfOne == ASSUME NEW ch, NEW m \in Messages PROVE Of(ch, <<m>>) = Bit(ch, m)
<1>1. <<m>> \in Seq(Messages) /\ Len(<<m>>) = 1 /\ DOMAIN <<m>> = 1..1
  OBVIOUS
<1>2. /\ Bits(ch, <<m>>) \in Seq(Seq(Messages)) /\ Len(Bits(ch, <<m>>)) = 1
      /\ Bits(ch, <<m>>)[1] = Bit(ch, m)
  <2>1. Bits(ch, <<m>>)[1] = Bit(ch, <<m>>[1])
    BY <1>1 DEF Bits
  <2>. QED BY <1>1, <2>1, BitsType
<1>3. Bit(ch, m) \in Seq(Messages)
  BY DEF Bit
<1>4. Bits(ch, <<m>>) = Append(<<>>, Bit(ch, m))
  <2>1. /\ Append(<<>>, Bit(ch, m)) \in Seq(Seq(Messages))
        /\ Len(Append(<<>>, Bit(ch, m))) = 1 /\ Append(<<>>, Bit(ch, m))[1] = Bit(ch, m)
    BY <1>3
  <2>2. \A i \in 1..1 : Bits(ch, <<m>>)[i] = Append(<<>>, Bit(ch, m))[i]
    BY <1>2, <2>1
  <2>. QED BY <1>2, <2>1, <2>2, SeqEqual
<1>5. FlattenSeq(Append(<<>>, Bit(ch, m))) = <<>> \o Bit(ch, m)
  <2>. DEFINE x == Bit(ch, m)
              none == <<>>
  <2>1. none \in Seq(Seq(Messages)) /\ x \in Seq(Messages) /\ FlattenSeq(none) = <<>>
    BY <1>3, EmptySeq, FlattenEmpty
  <2>. HIDE DEF x, none
  <2>2. FlattenSeq(Append(none, x)) = FlattenSeq(none) \o x
    BY <2>1, FlattenAppend
  <2>. QED BY <2>1, <2>2 DEF x, none
<1>6. <<>> \o Bit(ch, m) = Bit(ch, m)
  BY <1>3, ConcatEmptySeq
<1>7. Of(ch, <<m>>) = FlattenSeq(Bits(ch, <<m>>))
  BY <1>1, BitsType
<1>. QED BY <1>4, <1>5, <1>6, <1>7

\* Every message of s is for channel c.
AllFor(c, s) == \A i \in DOMAIN s : ChannelOf[s[i]] = c

\* Of messages that are for one channel.
LEMMA OfOthers ==
    ASSUME NEW ch, NEW c, NEW s \in Seq(Messages), AllFor(c, s)
    PROVE  Of(ch, s) = IF ch = c THEN s ELSE <<>>
<1>. DEFINE Good(t) == Of(ch, t) = IF ch = c THEN t ELSE <<>>
            Lengths == {n \in Nat : \A t \in Seq(Messages) : Len(t) = n /\ AllFor(c, t) => Good(t)}
<1>1. 0 \in Lengths
  <2>. SUFFICES ASSUME NEW t \in Seq(Messages), Len(t) = 0 PROVE Good(t)
    OBVIOUS
  <2>1. t = <<>>
    BY EmptySeq
  <2>. QED BY <2>1, OfEmpty
<1>2. \A x \in Seq(Messages) : x \o <<>> = x
  BY ConcatEmptySeq
<1>3. ASSUME NEW n \in Lengths PROVE n + 1 \in Lengths
  <2>. SUFFICES ASSUME NEW t \in Seq(Messages), Len(t) = n + 1, AllFor(c, t) PROVE Good(t)
    OBVIOUS
  <2>1. t # <<>>
    BY EmptySeq
  <2>2. PICK u \in Seq(Messages), m \in Messages : t = Append(u, m)
    BY <2>1, SequenceEmptyOrAppend
  <2>3. /\ Len(u) \in Nat /\ Len(t) = Len(u) + 1 /\ t[Len(u) + 1] = m
        /\ \A i \in 1..Len(u) : t[i] = u[i]
        /\ DOMAIN u = 1..Len(u) /\ DOMAIN t = 1..(Len(u) + 1)
    BY <2>2, AppendProperties, LenProperties
  <2>4. Len(u) = n /\ AllFor(c, u) /\ ChannelOf[m] = c
    <3>1. n \in Nat
      BY <1>3
    <3>2. Len(u) = n
      <4>1. Len(u) \in Nat /\ Len(t) = Len(u) + 1
        BY <2>3
      <4>. QED BY <3>1, <4>1
    <3>3. ChannelOf[m] = c
      BY <2>3 DEF AllFor
    <3>4. AllFor(c, u)
      BY <2>3 DEF AllFor
    <3>. QED BY <3>2, <3>3, <3>4
  <2>5. Good(u)
    BY <1>3, <2>4
  <2>6. t = u \o <<m>> /\ <<m>> \in Seq(Messages)
    BY <2>2, AppendIsConcat
  <2>7. Of(ch, t) = Of(ch, u) \o Bit(ch, m)
    <3>1. Of(ch, u \o <<m>>) = Of(ch, u) \o Of(ch, <<m>>)
      BY <2>6, OfConcat
    <3>2. Of(ch, <<m>>) = Bit(ch, m)
      BY <2>2, OfOne
    <3>. QED BY <2>6, <3>1, <3>2
  <2>8. CASE ch = c
    BY <2>4, <2>5, <2>6, <2>7, <2>8 DEF Bit
  <2>9. CASE ch # c
    BY <1>2, <2>4, <2>5, <2>7, <2>9, EmptySeq DEF Bit
  <2>. QED BY <2>8, <2>9
<1>4. Lengths = Nat
  <2>. HIDE DEF Lengths
  <2>1. Lengths \in SUBSET Nat
    BY DEF Lengths
  <2>. QED BY <1>1, <1>3, <2>1, Induction
<1>5. Len(s) \in Lengths
  <2>. HIDE DEF Lengths
  <2>. QED BY <1>4, LenProperties
<1>. QED BY <1>5

\* The lanes' backlogs are sequences of messages for their channels.
BacklogsOK ==
    \A c \in Channels : lane[c].backlog \in Seq(Messages) /\ AllFor(c, lane[c].backlog)

\* SetToSeq enumerates a finite set.
LEMMA Enumeration ==
    ASSUME NEW S, IsFiniteSet(S)
    PROVE  /\ Cardinality(S) \in Nat
           /\ SetToSeq(S) \in [1..Cardinality(S) -> S]
           /\ \A i, j \in 1..Cardinality(S) : SetToSeq(S)[i] = SetToSeq(S)[j] => i = j
           /\ \A x \in S : \E i \in 1..Cardinality(S) : SetToSeq(S)[i] = x
<1>. DEFINE n == Cardinality(S)
            g == SetToSeq(S)
<1>1. n \in Nat /\ ExistsBijection(1..n, S)
  BY FS_CardinalityType
<1>2. PICK b : b \in Bijection(1..n, S)
  BY <1>1 DEF ExistsBijection
<1>3. b \in [1..n -> S] /\ IsInjective(b)
  BY <1>2 DEF Bijection, Injection
<1>4. g \in [1..n -> S] /\ IsInjective(g)
  BY <1>3 DEF SetToSeq
<1>. HIDE DEF g
<1>5. IsFiniteSet(1..n) /\ Cardinality(1..n) = n
  BY <1>1, FS_Interval
<1>6. g \in Surjection(1..n, S)
  BY <1>4, <1>5, FS_Injection DEF Injection
<1>7. \A x \in S : \E i \in 1..n : g[i] = x
  BY <1>6 DEF Surjection
<1>8. \A i, j \in 1..n : g[i] = g[j] => i = j
  BY <1>4 DEF IsInjective
<1>. QED BY <1>1, <1>4, <1>7, <1>8 DEF g

\* The backlogs of a set of lanes are a sequence of messages; what it has for
\* a channel is the backlog of the channel's lane, if that is in the set.
LEMMA OfBacklogs ==
    ASSUME BacklogsOK, NEW S \in SUBSET Channels
    PROVE  /\ Backlogs(S) \in Seq(Messages)
           /\ \A ch \in Channels :
                 Of(ch, Backlogs(S)) = IF ch \in S THEN lane[ch].backlog ELSE <<>>
<1>. DEFINE n == Cardinality(S)
            g == SetToSeq(S)
            ss == [i \in 1..n |-> lane[g[i]].backlog]
<1>1. IsFiniteSet(S)
  BY ChannelAssumption, FS_Subset
<1>2. /\ n \in Nat /\ g \in [1..n -> S]
      /\ \A i, j \in 1..n : g[i] = g[j] => i = j
      /\ \A x \in S : \E i \in 1..n : g[i] = x
  BY <1>1, Enumeration
<1>3. Backlogs(S) = FlattenSeq(ss)
  BY DEF Backlogs
<1>. HIDE DEF n, g
<1>4. ASSUME NEW i \in 1..n
      PROVE  /\ g[i] \in Channels /\ ss[i] = lane[g[i]].backlog /\ ss[i] \in Seq(Messages)
             /\ AllFor(g[i], ss[i])
  BY <1>2, <1>4 DEF BacklogsOK
<1>5. ss \in Seq(Seq(Messages)) /\ Len(ss) = n
  <2>1. ss \in [1..n -> Seq(Messages)]
    BY <1>4
  <2>. HIDE DEF ss
  <2>. QED BY <1>2, <2>1, FunctionSeq
<1>. DEFINE part(k) == SubSeq(ss, 1, k)
<1>. HIDE DEF ss
<1>6. ASSUME NEW k \in Nat, k <= n
      PROVE  part(k) \in Seq(Seq(Messages)) /\ FlattenSeq(part(k)) \in Seq(Messages)
  <2>1. \A i \in 1..k : ss[i] \in Seq(Messages)
    BY <1>2, <1>4, <1>6
  <2>2. part(k) \in Seq(Seq(Messages))
    BY <2>1, <1>6, SubSeqProperties
  <2>. QED BY <2>2, FlattenAppend, EmptySeq
<1>7. ASSUME NEW k \in Nat, k + 1 <= n
      PROVE  FlattenSeq(part(k + 1)) = FlattenSeq(part(k)) \o ss[k + 1]
  <2>1. k + 1 \in 1..n /\ k <= n /\ 1 \in 1..n
    BY <1>2, <1>7
  <2>2. ss[k + 1] \in Seq(Messages) /\ part(k) \in Seq(Seq(Messages))
    BY <1>4, <1>6, <2>1
  <2>3. part(k + 1) = part(k) \o <<ss[k + 1]>>
    <3>1. SubSeq(ss, 1, k + 1) = SubSeq(ss, 1, (k + 1) - 1) \o <<ss[k + 1]>>
      BY <1>5, <2>1, SubSeqRecursiveSecond
    <3>. QED BY <3>1
  <2>4. part(k) \o <<ss[k + 1]>> = Append(part(k), ss[k + 1])
    BY <2>2, AppendIsConcat
  <2>. HIDE DEF part
  <2>5. FlattenSeq(Append(part(k), ss[k + 1])) = FlattenSeq(part(k)) \o ss[k + 1]
    BY <2>2, FlattenAppend
  <2>. QED BY <2>3, <2>4, <2>5
<1>8. part(0) = <<>> /\ part(n) = ss
  <2>1. SubSeq(ss, 1, 0) = <<>>
    BY SubSeqEmpty
  <2>2. SubSeq(ss, 1, n) = ss
    BY <1>5, SubSeqFull
  <2>. QED BY <2>1, <2>2
<1>. HIDE DEF part
<1>9. ASSUME NEW ch \in Channels
      PROVE  Of(ch, Backlogs(S)) = IF ch \in S THEN lane[ch].backlog ELSE <<>>
  <2>. DEFINE Found(k) == \E i \in 1..k : g[i] = ch
              Good(k) == Of(ch, FlattenSeq(part(k))) = IF Found(k) THEN lane[ch].backlog ELSE <<>>
              Lengths == {k \in Nat : k <= n => Good(k)}
  <2>1. 0 \in Lengths
    <3>1. Of(ch, FlattenSeq(part(0))) = <<>>
      BY <1>8, FlattenEmpty, OfEmpty
    <3>2. ~Found(0)
      OBVIOUS
    <3>. QED BY <3>1, <3>2
  <2>0. \A x \in Seq(Messages) : x \o <<>> = x /\ <<>> \o x = x
    BY ConcatEmptySeq
  <2>2. ASSUME NEW k \in Lengths PROVE k + 1 \in Lengths
    <3>. k \in Nat /\ (k <= n => Good(k))
      <4>. HIDE DEF Good
      <4>. QED BY <2>2
    <3>. SUFFICES ASSUME k + 1 <= n PROVE Good(k + 1)
      <4>. HIDE DEF Good
      <4>. QED OBVIOUS
    <3>1. k <= n /\ k + 1 \in 1..n
      BY <1>2
    <3>2. Good(k)
      <4>. HIDE DEF Good
      <4>. QED BY <3>1
    <3>3. /\ g[k + 1] \in Channels /\ ss[k + 1] = lane[g[k + 1]].backlog
          /\ ss[k + 1] \in Seq(Messages) /\ AllFor(g[k + 1], ss[k + 1])
      BY <1>4, <3>1
    <3>4. Of(ch, FlattenSeq(part(k + 1))) = Of(ch, FlattenSeq(part(k))) \o Of(ch, ss[k + 1])
      <4>1. FlattenSeq(part(k)) \in Seq(Messages)
        BY <1>6, <3>1
      <4>2. Of(ch, FlattenSeq(part(k)) \o ss[k + 1]) = Of(ch, FlattenSeq(part(k))) \o Of(ch, ss[k + 1])
        BY <4>1, <3>3, OfConcat
      <4>. QED BY <1>7, <4>2
    <3>5. Of(ch, ss[k + 1]) = IF ch = g[k + 1] THEN lane[ch].backlog ELSE <<>>
      BY <3>3, OfOthers
    <3>6. lane[ch].backlog \in Seq(Messages) /\ <<>> \in Seq(Messages)
      BY EmptySeq DEF BacklogsOK
    <3>7. CASE ch = g[k + 1]
      <4>1. ~Found(k)
        <5>. SUFFICES ASSUME NEW i \in 1..k, g[i] = ch PROVE FALSE
          OBVIOUS
        <5>1. i \in 1..n /\ i # k + 1
          BY <3>1, <1>2
        <5>. QED BY <1>2, <3>1, <3>7, <5>1
      <4>2. Found(k + 1)
        BY <3>1, <3>7
      <4>. QED BY <2>0, <3>2, <3>4, <3>5, <3>6, <3>7, <4>1, <4>2
    <3>8. CASE ch # g[k + 1]
      <4>1. Found(k + 1) <=> Found(k)
        BY <3>1, <3>8
      <4>. HIDE DEF Found
      <4>. QED BY <2>0, <3>2, <3>4, <3>5, <3>6, <3>8, <4>1
    <3>. QED BY <3>7, <3>8
  <2>3. Lengths = Nat
    <3>. HIDE DEF Lengths
    <3>1. Lengths \in SUBSET Nat
      BY DEF Lengths
    <3>. QED BY <2>1, <2>2, <3>1, Induction
  <2>4. Good(n)
    <3>. HIDE DEF Good
    <3>1. n \in Lengths /\ n <= n
      BY <1>2, <2>3
    <3>. QED BY <3>1
  <2>5. Found(n) <=> ch \in S
    BY <1>2
  <2>. HIDE DEF Found
  <2>. QED BY <1>3, <1>8, <2>4, <2>5
<1>10. Backlogs(S) \in Seq(Messages)
  <2>1. n <= n
    BY <1>2
  <2>. QED BY <1>2, <1>3, <1>6, <1>8, <2>1
<1>. QED BY <1>9, <1>10

-----------------------------------------------------------------------------
(* The invariant                                                           *)

LaneRecords == [phase : Phases, msg : Messages \cup {None},
                transport : Transports \cup {None},
                todo : SUBSET Transports, attempted : SUBSET Transports,
                failed : SUBSET Transports, backlog : Seq(Messages),
                cancelled : BOOLEAN]

\* The phases that only an ordinary message reaches.
RetryPhases == {"recall", "notice", "backoff", "relock"}

\* The state of a lane's task fits its phase.
LaneOK(ch) ==
    LET l == lane[ch] IN
    /\ l.phase = "none" => l = NoLane
    /\ l.phase = "ended" => l.backlog = <<>>
    /\ l.phase = "cancelled" => CallbackCancels
    /\ l.phase \in BusyPhases => l.msg \in Messages /\ ChannelOf[l.msg] = ch
    /\ l.phase \notin BusyPhases => l.msg = None
    /\ l.phase \in RetryPhases => l.msg \notin Acknowledged
    /\ AllFor(ch, l.backlog)
    /\ l.cancelled => ch \in abandoned

\* The dispatcher and the table of its lanes.
TableOK ==
    /\ \A ch \in abandoned :
          /\ lane[ch].phase \in BusyPhases \cup {"created"} /\ lane[ch].backlog = <<>>
          /\ lane[ch].phase = "created" => lane[ch].cancelled
    /\ dispatcher # "aborting" => abandoned = {}
    /\ dispatcher = "aborting" => \A ch \in Channels \ abandoned : lane[ch] = NoLane
    /\ dispatcher = "off" => \A ch \in Channels : lane[ch] = NoLane
    /\ dispatcher # "loop" => fetched = None

\* Callbacks are called under the lock, with the current transports.
LockOK ==
    /\ \A ch \in Channels :
          lane[ch].phase \in CallPhases =>
              /\ lock = ch
              /\ lane[ch].transport \in subscribers[ch] \ lane[ch].todo
              /\ lane[ch].todo \subseteq subscribers[ch]
    /\ lock = Host => handovers < MaxHandovers

\* A channel's line and the message act that is in delivery are consistent
\* with what was published and what is settled.
PlacedAs(ch, line, act, done, pub) ==
    /\ line \in Seq(Messages) /\ IsInjective(line) /\ AllFor(ch, line)
    /\ \A i \in DOMAIN line : line[i] \in pub \ done /\ line[i] # act
    /\ act # None => act \in pub \ done /\ ChannelOf[act] = ch

\* A message is in one place: it waits once, is in delivery or is settled.
PlacesOK ==
    /\ \A ch \in Channels : PlacedAs(ch, Line(ch), Active(ch), settled, ToSet(published))
    /\ settled \subseteq ToSet(published)

\* What became of the attempts at the message that a lane with state l
\* delivers, if the transports done accepted or refused it.
Attempts(l, done) ==
    /\ l.phase = "lock" => done = {} /\ l.failed = {}
    /\ l.phase = "call" /\ l.msg \notin Acknowledged =>
          /\ l.failed \cup l.todo \cup {l.transport} \cup done \subseteq l.attempted
          /\ l.todo \cap l.failed = {} /\ l.transport \notin l.failed
          /\ done \cap (l.failed \cup l.todo \cup {l.transport}) = {}
    /\ l.phase = "call" => done \cap (l.todo \cup {l.transport}) = {}
    /\ l.phase \in {"backoff", "relock"} =>
          done \cup l.failed \subseteq l.attempted /\ done \cap l.failed = {}
    /\ l.phase \in {"recall", "notice"} => done \cap (l.todo \cup {l.transport}) = {}

AttemptsOK == \A ch \in Channels : Attempts(lane[ch], final[lane[ch].msg])

\* Nothing was tried of a message that is neither in delivery nor settled.
Untried ==
    \A m \in Messages \ settled :
        m # Active(ChannelOf[m]) => final[m] = {} /\ m \notin started

\* A started acknowledged message is being delivered or over.
CalledOK == \A m \in Acknowledged \cap started : Calling(m) \/ m \in settled

IInv ==
    /\ TypeOK
    /\ \A ch \in Channels : LaneOK(ch)
    /\ TableOK /\ LockOK /\ PlacesOK
    /\ AttemptsOK /\ Untried /\ CalledOK /\ WithdrawnNeverSent /\ JoinCounts

-----------------------------------------------------------------------------
(* What an action of a lane's task does                                    *)

\* The lane goes on with its message, in state q.
Keeps(ch, q) ==
    LET l == lane[ch] IN
    /\ l.phase \in BusyPhases /\ q.phase \in BusyPhases \ {"lock"}
    /\ q \in LaneRecords /\ lane' = [lane EXCEPT ![ch] = q]
    /\ q.msg = l.msg /\ q.backlog = l.backlog /\ (q.cancelled => l.cancelled)
    /\ lock' = lock \/ (lock \in {None, ch} /\ lock' \in {None, ch})
    /\ q.phase \in CallPhases =>
          /\ lock' = ch /\ q.transport \in subscribers[ch] \ q.todo
          /\ q.todo \subseteq subscribers[ch]
          /\ Doing(q) # Doing(l) => q.transport \notin final[l.msg] /\ l.msg \notin revoked
    /\ q.phase \in RetryPhases => q.msg \notin Acknowledged
    /\ \/ started' = started
       \/ /\ started' = started \cup {l.msg} /\ q.phase \in {"call", "recall"}
          /\ l.msg \in Acknowledged => answer[l.msg] # "withdrawn"
    /\ \E D \in SUBSET Transports : final' = [final EXCEPT ![l.msg] = D] /\ Attempts(q, D)
    /\ UNCHANGED <<queue, fetched, unfinished, abandoned, loop, host, outcomes, published, settled>>

\* The lane is done with its message and goes on in state q.
Leaves(ch, q) ==
    LET l == lane[ch] IN
    /\ l.phase \in BusyPhases
    /\ q \in LaneRecords /\ lane' = [lane EXCEPT ![ch] = q] /\ ~q.cancelled
    /\ \/ /\ q.phase \in DonePhases \cup {"none"} /\ q.msg = None /\ q.backlog = l.backlog
          /\ q.phase = "none" => q = NoLane
          /\ q.phase = "ended" => q.backlog = <<>>
          /\ q.phase = "cancelled" => CallbackCancels
       \/ /\ q.phase = "lock" /\ l.backlog # <<>> /\ ch \notin abandoned
          /\ q.msg = Head(l.backlog) /\ q.backlog = Tail(l.backlog) /\ q.failed = {}
    /\ ch \in abandoned => q = NoLane
    /\ abandoned' = abandoned \ {ch}
    /\ lock' = lock \/ (lock \in {None, ch} /\ lock' = None)
    /\ lock' # ch
    /\ settled' = settled \cup {l.msg} /\ unfinished' = unfinished - 1
    /\ \E D \in SUBSET Transports : final' = [final EXCEPT ![l.msg] = D]
    /\ answer' \in [Acknowledged -> Answers]
    /\ \A m \in Acknowledged : answer'[m] = "withdrawn" => answer[m] = "withdrawn"
    /\ UNCHANGED <<queue, fetched, loop, host, revoked, published, started>>

\* The lane's task begins, in state q.
Begins(ch, q) ==
    LET l == lane[ch] IN
    /\ l.phase = "created" /\ ch \notin abandoned
    /\ q \in LaneRecords /\ lane' = [lane EXCEPT ![ch] = q] /\ ~q.cancelled
    /\ \/ q.phase = "ended" /\ q.msg = None /\ q.backlog = l.backlog /\ q.backlog = <<>>
       \/ /\ q.phase = "lock" /\ l.backlog # <<>>
          /\ q.msg = Head(l.backlog) /\ q.backlog = Tail(l.backlog) /\ q.failed = {}
    /\ UNCHANGED <<bus, abandoned, loop, lock, host, outcomes, published, ghosts>>

\* An abandoned lane's task ends before it ran.
Vanishes(ch) ==
    /\ lane[ch].phase = "created" /\ ch \in abandoned
    /\ lane' = [lane EXCEPT ![ch] = NoLane] /\ abandoned' = abandoned \ {ch}
    /\ UNCHANGED <<bus, loop, lock, host, outcomes, published, ghosts>>

Works(ch) ==
    \/ \E q : Keeps(ch, q)
    \/ \E q : Leaves(ch, q)
    \/ \E q : Begins(ch, q)
    \/ Vanishes(ch)

\* What the invariant says of a lane.
LEMMA LaneFacts ==
    ASSUME IInv, NEW ch \in Channels
    PROVE  /\ lane[ch] \in LaneRecords /\ LaneOK(ch)
           /\ subscribers[ch] \in SUBSET Transports
           /\ \A m \in Messages : final[m] \in SUBSET Transports
           /\ Attempts(lane[ch], final[lane[ch].msg])
           /\ lane \in [Channels -> LaneRecords]
<1>1. lane \in [Channels -> LaneRecords]
  BY DEF IInv, TypeOK, LaneRecords
<1>. QED BY <1>1 DEF IInv, TypeOK, AttemptsOK

\* The fields of a lane's state are in their sets.
LEMMA RecordFields ==
    ASSUME NEW l \in LaneRecords
    PROVE  /\ l.phase \in Phases /\ l.msg \in Messages \cup {None}
           /\ l.transport \in Transports \cup {None} /\ l.todo \in SUBSET Transports
           /\ l.attempted \in SUBSET Transports /\ l.failed \in SUBSET Transports
           /\ l.backlog \in Seq(Messages) /\ l.cancelled \in BOOLEAN
BY DEF LaneRecords

\* The empty lane.
LEMMA NoLaneFields ==
    /\ NoLane \in LaneRecords /\ NoLane.phase = "none" /\ NoLane.msg = None
    /\ NoLane.transport = None /\ NoLane.todo = {} /\ NoLane.attempted = {}
    /\ NoLane.failed = {} /\ NoLane.backlog = <<>> /\ ~NoLane.cancelled
BY EmptySeq DEF NoLane, LaneRecords, Phases

\* What Take makes of a lane.
LEMMA TakeFields ==
    ASSUME NEW l \in LaneRecords
    PROVE  /\ Take(l) \in LaneRecords /\ ~Take(l).cancelled
           /\ \/ /\ Take(l).phase = "ended" /\ Take(l).msg = None
                 /\ Take(l).backlog = l.backlog /\ l.backlog = <<>>
              \/ /\ Take(l).phase = "lock" /\ l.backlog # <<>>
                 /\ Take(l).msg = Head(l.backlog) /\ Take(l).backlog = Tail(l.backlog)
                 /\ Take(l).failed = {}
<1>1. l.backlog \in Seq(Messages)
  BY RecordFields
<1>2. CASE l.backlog = <<>>
  BY <1>1, <1>2, EmptySeq DEF Take, NoLane, LaneRecords, Phases, DonePhases
<1>3. CASE l.backlog # <<>>
  <2>1. Head(l.backlog) \in Messages /\ Tail(l.backlog) \in Seq(Messages)
    BY <1>1, <1>3, HeadTailProperties
  <2>. QED BY <1>3, <2>1 DEF Take, NoLane, LaneRecords, Phases, BusyPhases
<1>. QED BY <1>2, <1>3

\* What a call makes of a lane.
LEMMA CallFields ==
    ASSUME NEW ch \in Channels, NEW l \in LaneRecords, NEW phase \in {"call", "recall"},
           NEW targets \in SUBSET Transports, Call(ch, l, phase, targets)
    PROVE  \E t \in targets, q \in LaneRecords :
              /\ lane' = [lane EXCEPT ![ch] = q]
              /\ q.phase = phase /\ q.transport = t /\ q.todo = targets \ {t}
              /\ q.msg = l.msg /\ q.attempted = l.attempted /\ q.failed = l.failed
              /\ q.backlog = l.backlog /\ q.cancelled = l.cancelled
              /\ lock' = ch /\ started' = started \cup {l.msg}
              /\ UNCHANGED <<unfinished, abandoned, settled>>
<1>1. PICK t \in targets :
         lane' = [lane EXCEPT ![ch] =
                     [l EXCEPT !.phase = phase, !.transport = t, !.todo = targets \ {t}]]
  BY DEF Call
<1>. DEFINE q == [l EXCEPT !.phase = phase, !.transport = t, !.todo = targets \ {t}]
<1>2. phase \in Phases /\ t \in Transports \cup {None} /\ targets \ {t} \in SUBSET Transports
  BY DEF Phases, BusyPhases, CallPhases
<1>3. /\ q \in LaneRecords
      /\ q.phase = phase /\ q.transport = t /\ q.todo = targets \ {t}
      /\ q.msg = l.msg /\ q.attempted = l.attempted /\ q.failed = l.failed
      /\ q.backlog = l.backlog /\ q.cancelled = l.cancelled
  BY <1>2 DEF LaneRecords
<1>4. lane' = [lane EXCEPT ![ch] = q]
  BY <1>1
<1>. HIDE DEF q
<1>5. lock' = ch /\ started' = started \cup {l.msg} /\ UNCHANGED <<unfinished, abandoned, settled>>
  BY DEF Call
<1>. QED BY <1>3, <1>4, <1>5

\* A busy lane that is done.
LEMMA LeaveFields ==
    ASSUME IInv, NEW ch \in Channels, lane[ch].phase \in BusyPhases,
           NEW l \in LaneRecords, ~l.cancelled, LeaveAs(ch, l),
           \/ /\ l.phase \in DonePhases /\ l.msg = None /\ l.backlog = lane[ch].backlog
              /\ l.phase = "ended" => l.backlog = <<>>
              /\ l.phase = "cancelled" => CallbackCancels \/ ch \in abandoned
           \/ /\ l.phase = "lock" /\ lane[ch].backlog # <<>>
              /\ l.msg = Head(lane[ch].backlog) /\ l.backlog = Tail(lane[ch].backlog) /\ l.failed = {},
           lock' = lock \/ (lock \in {None, ch} /\ lock' = None), lock' # ch,
           \E D \in SUBSET Transports : final' = [final EXCEPT ![lane[ch].msg] = D],
           answer' \in [Acknowledged -> Answers],
           \A m \in Acknowledged : answer'[m] = "withdrawn" => answer[m] = "withdrawn",
           UNCHANGED <<queue, fetched, loop, host, revoked, published, started>>
    PROVE  \E q : Leaves(ch, q)
<1>. DEFINE q == IF ch \in abandoned THEN NoLane ELSE l
<1>1. /\ lane' = [lane EXCEPT ![ch] = q] /\ abandoned' = abandoned \ {ch}
      /\ settled' = settled \cup {lane[ch].msg} /\ unfinished' = unfinished - 1
  BY DEF LeaveAs, Settled, TaskDone
<1>2. /\ q \in LaneRecords /\ ~q.cancelled /\ (ch \in abandoned => q = NoLane)
      /\ \/ /\ q.phase \in DonePhases \cup {"none"} /\ q.msg = None /\ q.backlog = lane[ch].backlog
            /\ q.phase = "none" => q = NoLane
            /\ q.phase = "ended" => q.backlog = <<>>
            /\ q.phase = "cancelled" => CallbackCancels
         \/ /\ q.phase = "lock" /\ lane[ch].backlog # <<>> /\ ch \notin abandoned
            /\ q.msg = Head(lane[ch].backlog) /\ q.backlog = Tail(lane[ch].backlog) /\ q.failed = {}
  <2>1. CASE ch \in abandoned
    <3>1. lane[ch].backlog = <<>>
      BY <2>1 DEF IInv, TableOK
    <3>. QED BY <2>1, <3>1, NoLaneFields
  <2>2. CASE ch \notin abandoned
    BY <2>2 DEF DonePhases
  <2>. QED BY <2>1, <2>2
<1>. HIDE DEF q
<1>3. Leaves(ch, q)
  BY <1>1, <1>2 DEF Leaves
<1>. QED BY <1>3

\* A call, given what it knows of the attempts so far.
LEMMA CallKeeps ==
    ASSUME IInv, NEW ch \in Channels, NEW l \in LaneRecords,
           NEW phase \in {"call", "recall"}, NEW targets \in SUBSET Transports,
           Call(ch, l, phase, targets),
           lane[ch].phase \in BusyPhases,
           l.msg = lane[ch].msg, l.backlog = lane[ch].backlog, l.cancelled => lane[ch].cancelled,
           lock \in {None, ch}, targets \subseteq subscribers[ch],
           l.msg \notin revoked,
           phase = "recall" => l.msg \notin Acknowledged,
           l.msg \in Acknowledged => answer[l.msg] # "withdrawn",
           NEW D \in SUBSET Transports, final' = [final EXCEPT ![l.msg] = D],
           final[l.msg] \subseteq D, D \cap targets = {},
           phase = "call" /\ l.msg \notin Acknowledged =>
              /\ l.failed \cup targets \cup D \subseteq l.attempted
              /\ targets \cap l.failed = {} /\ D \cap l.failed = {},
           UNCHANGED <<queue, fetched, loop, host, outcomes, published>>
    PROVE  \E q : Keeps(ch, q)
<1>1. PICK t \in targets, q \in LaneRecords :
              /\ lane' = [lane EXCEPT ![ch] = q]
              /\ q.phase = phase /\ q.transport = t /\ q.todo = targets \ {t}
              /\ q.msg = l.msg /\ q.attempted = l.attempted /\ q.failed = l.failed
              /\ q.backlog = l.backlog /\ q.cancelled = l.cancelled
              /\ lock' = ch /\ started' = started \cup {l.msg}
              /\ UNCHANGED <<unfinished, abandoned, settled>>
  BY CallFields
<1>2. Attempts(q, D)
  BY <1>1 DEF Attempts
<1>3. q.phase \in BusyPhases \ {"lock"} /\ q.phase \notin {"notice", "backoff", "relock"}
  BY <1>1 DEF BusyPhases, CallPhases
<1>4. q.phase \in RetryPhases => q.msg \notin Acknowledged
  BY <1>1, <1>3 DEF RetryPhases
<1>5. q.transport \in subscribers[ch] \ q.todo /\ q.todo \subseteq subscribers[ch]
      /\ q.transport \notin final[l.msg]
  BY <1>1
<1>6. \E E \in SUBSET Transports : final' = [final EXCEPT ![lane[ch].msg] = E] /\ Attempts(q, E)
  BY <1>2
<1>7. Keeps(ch, q)
  BY <1>1, <1>3, <1>4, <1>5, <1>6 DEF Keeps
<1>. QED BY <1>7

\* Deliveries found the message its lane delivers in these states.
LEMMA BusyFacts ==
    ASSUME IInv, NEW ch \in Channels, lane[ch].phase \in BusyPhases
    PROVE  /\ lane[ch].msg \in Messages /\ final[lane[ch].msg] \in SUBSET Transports
           /\ final = [final EXCEPT ![lane[ch].msg] = final[lane[ch].msg]]
           /\ ch # None /\ answer \in [Acknowledged -> Answers]
           /\ lane[ch].phase \in CallPhases =>
                 /\ lock = ch /\ lane[ch].transport \in subscribers[ch] \ lane[ch].todo
                 /\ lane[ch].todo \subseteq subscribers[ch]
<1>1. lane[ch].msg \in Messages
  BY LaneFacts DEF LaneOK
<1>2. final \in [Messages -> SUBSET Transports] /\ answer \in [Acknowledged -> Answers]
  BY DEF IInv, TypeOK
<1>. QED BY <1>1, <1>2, ChannelAssumption DEF IInv, LockOK

\* A lane that gives its message up and takes the next one.
LEMMA LeaveWorks ==
    ASSUME IInv, NEW ch \in Channels, lane[ch].phase \in BusyPhases, lock \in {None, ch},
           Leave(ch), NEW D \in SUBSET Transports, final' = [final EXCEPT ![lane[ch].msg] = D],
           answer' \in [Acknowledged -> Answers],
           \A m \in Acknowledged : answer'[m] = "withdrawn" => answer[m] = "withdrawn",
           UNCHANGED <<queue, fetched, loop, host, revoked, published>>
    PROVE  Works(ch)
<1>. DEFINE l == Take(lane[ch])
<1>1. lane[ch] \in LaneRecords /\ ch # None
  BY LaneFacts, BusyFacts
<1>2. /\ l \in LaneRecords /\ ~l.cancelled
      /\ \/ /\ l.phase \in DonePhases /\ l.msg = None /\ l.backlog = lane[ch].backlog
            /\ l.phase = "ended" => l.backlog = <<>>
            /\ l.phase = "cancelled" => CallbackCancels \/ ch \in abandoned
         \/ /\ l.phase = "lock" /\ lane[ch].backlog # <<>>
            /\ l.msg = Head(lane[ch].backlog) /\ l.backlog = Tail(lane[ch].backlog) /\ l.failed = {}
  BY <1>1, TakeFields DEF DonePhases
<1>3. LeaveAs(ch, l) /\ lock' = None /\ started' = started
  BY DEF Leave, Complete
<1>. HIDE DEF l
<1>4. \E q : Leaves(ch, q)
  BY <1>1, <1>2, <1>3, LeaveFields
<1>. QED BY <1>4 DEF Works

\* A lane that ends early.
LEMMA EndsWorks ==
    ASSUME IInv, NEW ch \in Channels, lane[ch].phase \in BusyPhases,
           NEW phase \in {"cancelled", "failed"}, EndsAs(ch, phase),
           phase = "cancelled" => CallbackCancels \/ ch \in abandoned
    PROVE  Works(ch)
<1>. DEFINE l == [NoLane EXCEPT !.phase = phase, !.backlog = lane[ch].backlog]
<1>1. ch # None /\ lane[ch].backlog \in Seq(Messages)
  BY LaneFacts, BusyFacts, RecordFields
<1>2. /\ l \in LaneRecords /\ ~l.cancelled /\ l.phase = phase /\ l.msg = None
      /\ l.backlog = lane[ch].backlog
  BY <1>1 DEF NoLane, LaneRecords, Phases, DonePhases
<1>3. LeaveAs(ch, l)
  BY DEF EndsAs
<1>. HIDE DEF l
<1>4. /\ lock' = lock \/ (lock \in {None, ch} /\ lock' = None)
      /\ lock' # ch
      /\ UNCHANGED <<queue, fetched, loop, host, revoked, published, started>>
      /\ final' = final /\ answer' = answer
  BY <1>1 DEF EndsAs, outcomes
<1>5. /\ l.phase \in DonePhases /\ (l.phase = "ended" => l.backlog = <<>>)
      /\ l.phase = "cancelled" => CallbackCancels \/ ch \in abandoned
  BY <1>2 DEF DonePhases
<1>6. \E D \in SUBSET Transports : final' = [final EXCEPT ![lane[ch].msg] = D]
  BY <1>4, BusyFacts
<1>7. /\ answer' \in [Acknowledged -> Answers]
      /\ \A m \in Acknowledged : answer'[m] = "withdrawn" => answer[m] = "withdrawn"
  BY <1>4, BusyFacts
<1>8. \E q : Leaves(ch, q)
  BY <1>2, <1>3, <1>4, <1>5, <1>6, <1>7, LeaveFields
<1>. QED BY <1>8 DEF Works

\* What a waiting or calling lane's lock can be.
LEMMA LockFree ==
    ASSUME IInv, NEW ch \in Channels,
           lane[ch].phase \in CallPhases \/ Granted(ch, "lock") \/ Granted(ch, "relock")
    PROVE  lane[ch].phase \in BusyPhases /\ lock \in {None, ch}
<1>1. lane[ch].phase \in BusyPhases
  BY DEF Granted, BusyPhases
<1>2. CASE lane[ch].phase \in CallPhases
  BY <1>1, <1>2, BusyFacts
<1>3. CASE lock = None
  BY <1>1, <1>3
<1>. QED BY <1>2, <1>3 DEF Granted

\* The lane's task starts.
LEMMA LaneStartsWorks == ASSUME IInv, NEW ch \in Channels, LaneStarts(ch) PROVE Works(ch)
<1>. DEFINE q == Take(lane[ch])
<1>1. lane[ch].phase = "created" /\ ~lane[ch].cancelled /\ lane[ch] \in LaneRecords
  BY LaneFacts DEF LaneStarts
<1>2. ch \notin abandoned
  BY <1>1 DEF IInv, TableOK
<1>3. /\ q \in LaneRecords /\ ~q.cancelled
      /\ \/ q.phase = "ended" /\ q.msg = None /\ q.backlog = lane[ch].backlog /\ q.backlog = <<>>
         \/ /\ q.phase = "lock" /\ lane[ch].backlog # <<>>
            /\ q.msg = Head(lane[ch].backlog) /\ q.backlog = Tail(lane[ch].backlog) /\ q.failed = {}
  BY <1>1, TakeFields
<1>4. lane' = [lane EXCEPT ![ch] = q]
  BY DEF LaneStarts
<1>. HIDE DEF q
<1>5. Begins(ch, q)
  BY <1>1, <1>2, <1>3, <1>4 DEF Begins, LaneStarts
<1>. QED BY <1>5 DEF Works

\* SetResult withdraws nothing.
LEMMA ResultKeeps ==
    ASSUME answer \in [Acknowledged -> Answers], NEW m \in Acknowledged,
           NEW outcome \in {"sent", "failed", "uncertain"}, SetResult(m, outcome)
    PROVE  /\ answer' \in [Acknowledged -> Answers]
           /\ \A k \in Acknowledged : answer'[k] = "withdrawn" => answer[k] = "withdrawn"
BY DEF SetResult, Answers

\* The lock is granted for an acknowledged message.
LEMMA DeliverAcknowledgedWorks ==
    ASSUME IInv, NEW ch \in Channels, DeliverAcknowledged(ch) PROVE Works(ch)
<1>. DEFINE m == lane[ch].msg
<1>1. /\ Granted(ch, "lock") /\ m \in Acknowledged
      /\ \/ /\ NotWithdrawn(m) /\ MayDeliver(m)
            /\ Call(ch, lane[ch], "call", subscribers[ch]) /\ UNCHANGED answer
         \/ Leave(ch) /\ SetResult(m, "failed")
      /\ UNCHANGED <<queue, fetched, loop, host, revoked, published, final>>
  BY DEF DeliverAcknowledged
<1>2. lane[ch].phase = "lock" /\ lane[ch].phase \in BusyPhases /\ lock \in {None, ch}
  BY <1>1, LockFree DEF Granted
<1>3. /\ m \in Messages /\ final[m] \in SUBSET Transports
      /\ final = [final EXCEPT ![m] = final[m]] /\ answer \in [Acknowledged -> Answers]
      /\ lane[ch] \in LaneRecords /\ final[m] = {} /\ subscribers[ch] \in SUBSET Transports
  BY <1>2, BusyFacts, LaneFacts DEF Attempts
<1>4. CASE NotWithdrawn(m) /\ MayDeliver(m) /\ Call(ch, lane[ch], "call", subscribers[ch]) /\ UNCHANGED answer
  <2>1. \E q : Keeps(ch, q)
    BY <1>1, <1>2, <1>3, <1>4, CallKeeps DEF NotWithdrawn, MayDeliver, outcomes
  <2>. QED BY <2>1 DEF Works
<1>5. CASE Leave(ch) /\ SetResult(m, "failed")
  BY <1>1, <1>2, <1>3, <1>5, ResultKeeps, LeaveWorks
<1>. QED BY <1>1, <1>4, <1>5

\* An acknowledged delivery is over.
LEMMA AcknowledgedReturnsWorks ==
    ASSUME IInv, NEW ch \in Channels, NEW outcome \in {"sent", "failed", "uncertain"},
           AcknowledgedReturns(ch, outcome)
    PROVE  Works(ch)
<1>. DEFINE m == lane[ch].msg
            D == final[m] \cup {lane[ch].transport}
<1>1. /\ lane[ch].phase = "call" /\ m \in Acknowledged /\ Leave(ch) /\ SetResult(m, outcome)
      /\ final' = [final EXCEPT ![m] = D]
      /\ UNCHANGED <<queue, fetched, loop, host, revoked, published>>
  BY DEF AcknowledgedReturns
<1>2. lane[ch].phase \in CallPhases /\ lane[ch].phase \in BusyPhases /\ lock \in {None, ch}
  BY <1>1, LockFree DEF CallPhases
<1>3. /\ final[m] \in SUBSET Transports /\ answer \in [Acknowledged -> Answers]
      /\ lane[ch].transport \in subscribers[ch] /\ subscribers[ch] \in SUBSET Transports
  BY <1>2, BusyFacts, LaneFacts
<1>4. D \in SUBSET Transports
  BY <1>3
<1>5. /\ answer' \in [Acknowledged -> Answers]
      /\ \A k \in Acknowledged : answer'[k] = "withdrawn" => answer[k] = "withdrawn"
  BY <1>1, <1>3, ResultKeeps
<1>. HIDE DEF D
<1>. QED BY <1>1, <1>2, <1>4, <1>5, LeaveWorks

\* The first attempt at an ordinary message.
LEMMA DeliverWorks == ASSUME IInv, NEW ch \in Channels, Deliver(ch) PROVE Works(ch)
<1>. DEFINE m == lane[ch].msg
            targets == subscribers[ch]
            l == [lane[ch] EXCEPT !.attempted = targets]
<1>1. /\ Granted(ch, "lock") /\ m \notin Acknowledged
      /\ (MayDeliver(m) /\ Call(ch, l, "call", targets)) \/ Leave(ch)
      /\ UNCHANGED <<queue, fetched, loop, host, outcomes, published, final>>
  BY DEF Deliver
<1>2. lane[ch].phase = "lock" /\ lane[ch].phase \in BusyPhases /\ lock \in {None, ch}
  BY <1>1, LockFree DEF Granted
<1>3. /\ m \in Messages /\ final[m] \in SUBSET Transports
      /\ final = [final EXCEPT ![m] = final[m]] /\ answer \in [Acknowledged -> Answers]
      /\ lane[ch] \in LaneRecords /\ final[m] = {} /\ targets \in SUBSET Transports
  BY <1>2, BusyFacts, LaneFacts DEF Attempts
<1>4. CASE MayDeliver(m) /\ Call(ch, l, "call", targets)
  <2>1. /\ l \in LaneRecords /\ l.msg = m /\ l.backlog = lane[ch].backlog
        /\ l.cancelled = lane[ch].cancelled /\ l.attempted = targets /\ l.failed = lane[ch].failed
    BY <1>3 DEF LaneRecords
  <2>2. lane[ch].failed = {}
    BY <1>2, LaneFacts DEF Attempts
  <2>. HIDE DEF l
  <2>3. \E q : Keeps(ch, q)
    BY <1>1, <1>2, <1>3, <1>4, <2>1, <2>2, CallKeeps DEF MayDeliver
  <2>. QED BY <2>3 DEF Works
<1>5. CASE Leave(ch)
  BY <1>1, <1>2, <1>3, <1>5, LeaveWorks DEF outcomes
<1>. QED BY <1>1, <1>4, <1>5

\* What a callback's end makes of the transports that are done with the message.
DoneWith(ch, outcome) ==
    final[lane[ch].msg] \cup IF outcome = "error" THEN {} ELSE {lane[ch].transport}

\* A lane that is not cancelled any more.
LEMMA UncancelledFields ==
    ASSUME NEW ch, lane[ch] \in LaneRecords
    PROVE  LET l == lane[ch] u == Uncancelled(ch) IN
           /\ u \in LaneRecords /\ ~u.cancelled /\ u.phase = l.phase /\ u.msg = l.msg
           /\ u.transport = l.transport /\ u.todo = l.todo /\ u.attempted = l.attempted
           /\ u.failed = l.failed /\ u.backlog = l.backlog
BY DEF Uncancelled, LaneRecords

\* A callback's outcome is noted.
LEMMA NotedFinal ==
    ASSUME IInv, NEW ch \in Channels, lane[ch].phase \in CallPhases,
           NEW outcome \in {"done", "refused", "error"}, Noted(ch, outcome)
    PROVE  /\ DoneWith(ch, outcome) \in SUBSET Transports
           /\ final[lane[ch].msg] \subseteq DoneWith(ch, outcome)
           /\ final' = [final EXCEPT ![lane[ch].msg] = DoneWith(ch, outcome)]
<1>1. lane[ch].phase \in BusyPhases
  BY DEF BusyPhases
<1>2. /\ lane[ch].msg \in Messages /\ final[lane[ch].msg] \in SUBSET Transports
      /\ final = [final EXCEPT ![lane[ch].msg] = final[lane[ch].msg]]
      /\ lane[ch].transport \in subscribers[ch] /\ subscribers[ch] \in SUBSET Transports
  BY <1>1, BusyFacts, LaneFacts
<1>3. CASE outcome = "error"
  <2>1. DoneWith(ch, outcome) = final[lane[ch].msg] /\ final' = final
    BY <1>3 DEF DoneWith, Noted
  <2>. QED BY <1>2, <2>1
<1>4. CASE outcome # "error"
  <2>1. DoneWith(ch, outcome) = final[lane[ch].msg] \cup {lane[ch].transport}
    BY <1>4 DEF DoneWith
  <2>2. final' = [final EXCEPT ![lane[ch].msg] = DoneWith(ch, outcome)]
    BY <1>4, <2>1 DEF Noted
  <2>. QED BY <1>2, <2>1, <2>2
<1>. QED BY <1>3, <1>4

\* A callback of the first attempt at an ordinary message is over.
LEMMA CallReturnsWorks ==
    ASSUME IInv, NEW ch \in Channels, NEW outcome \in {"done", "refused", "error"},
           CallReturns(ch, outcome)
    PROVE  Works(ch)
<1>. DEFINE m == lane[ch].msg
            D == DoneWith(ch, outcome)
            F == IF outcome = "error" THEN lane[ch].failed \cup {lane[ch].transport} ELSE lane[ch].failed
            u == Uncancelled(ch)
            l == [u EXCEPT !.transport = None,
                    !.failed = IF outcome = "error" THEN @ \cup {lane[ch].transport} ELSE @]
            Paused == /\ lane' = [lane EXCEPT ![ch] = [l EXCEPT !.phase = "backoff"]]
                      /\ lock' = None
                      /\ UNCHANGED <<unfinished, abandoned, settled, started>>
<1>1. /\ lane[ch].phase = "call" /\ m \notin Acknowledged /\ Noted(ch, outcome)
      /\ \/ l.todo # {} /\ MayDeliver(m) /\ Call(ch, l, "call", l.todo)
         \/ Leave(ch)
         \/ l.todo = {} /\ Paused
      /\ UNCHANGED <<queue, fetched, loop, host, outcomes, published>>
  BY DEF CallReturns
<1>2. lane[ch].phase \in CallPhases /\ lane[ch].phase \in BusyPhases /\ lock \in {None, ch}
  <2>1. lane[ch].phase \in CallPhases
    BY <1>1 DEF CallPhases
  <2>. QED BY <2>1, LockFree
<1>3. /\ m \in Messages /\ answer \in [Acknowledged -> Answers] /\ lane[ch] \in LaneRecords
      /\ lane[ch].transport \in subscribers[ch] \ lane[ch].todo
      /\ lane[ch].todo \subseteq subscribers[ch] /\ subscribers[ch] \in SUBSET Transports
      /\ lane[ch].failed \in SUBSET Transports /\ lane[ch].todo \in SUBSET Transports
  BY <1>2, BusyFacts, LaneFacts, RecordFields
<1>4. D \in SUBSET Transports /\ final[m] \subseteq D /\ final' = [final EXCEPT ![m] = D]
  BY <1>1, <1>2, NotedFinal
<1>5. /\ l \in LaneRecords /\ ~l.cancelled /\ l.msg = m /\ l.backlog = lane[ch].backlog
      /\ l.todo = lane[ch].todo /\ l.attempted = lane[ch].attempted /\ l.failed = F
  <2>1. /\ u \in LaneRecords /\ ~u.cancelled /\ u.msg = m
        /\ u.todo = lane[ch].todo /\ u.attempted = lane[ch].attempted
        /\ u.failed = lane[ch].failed /\ u.backlog = lane[ch].backlog
    BY <1>3, UncancelledFields
  <2>2. F \in SUBSET Transports
    BY <1>3
  <2>. HIDE DEF u
  <2>. QED BY <1>3, <2>1, <2>2 DEF LaneRecords
<1>6. /\ lane[ch].failed \cup lane[ch].todo \cup {lane[ch].transport} \cup final[m]
            \subseteq lane[ch].attempted
      /\ lane[ch].todo \cap lane[ch].failed = {} /\ lane[ch].transport \notin lane[ch].failed
      /\ final[m] \cap (lane[ch].failed \cup lane[ch].todo \cup {lane[ch].transport}) = {}
  BY <1>1, LaneFacts DEF Attempts
<1>7. /\ F \cup lane[ch].todo \cup D \subseteq lane[ch].attempted
      /\ lane[ch].todo \cap F = {} /\ D \cap F = {} /\ D \cap lane[ch].todo = {}
  <2>1. CASE outcome = "error"
    BY <1>3, <1>6, <2>1 DEF DoneWith
  <2>2. CASE outcome # "error"
    BY <1>3, <1>6, <2>2 DEF DoneWith
  <2>. QED BY <2>1, <2>2
<1>. HIDE DEF D, F, l
<1>8. CASE MayDeliver(m) /\ Call(ch, l, "call", l.todo)
  <2>1. \E q : Keeps(ch, q)
    BY <1>1, <1>2, <1>3, <1>4, <1>5, <1>7, <1>8, CallKeeps DEF MayDeliver
  <2>. QED BY <2>1 DEF Works
<1>9. CASE Leave(ch)
  BY <1>1, <1>2, <1>3, <1>4, <1>9, LeaveWorks DEF outcomes
<1>10. CASE Paused
  <2>. DEFINE q == [l EXCEPT !.phase = "backoff"]
  <2>1. /\ q \in LaneRecords /\ ~q.cancelled /\ q.phase = "backoff" /\ q.msg = m
        /\ q.backlog = lane[ch].backlog /\ q.attempted = lane[ch].attempted /\ q.failed = F
    BY <1>5 DEF LaneRecords, Phases, BusyPhases
  <2>2. /\ lane' = [lane EXCEPT ![ch] = q] /\ lock' = None
        /\ UNCHANGED <<unfinished, abandoned, settled, started>>
    BY <1>10
  <2>. HIDE DEF q
  <2>3. Attempts(q, D)
    BY <1>7, <2>1 DEF Attempts
  <2>4. q.phase \in BusyPhases \ {"lock"} /\ q.phase \notin CallPhases
    BY <2>1 DEF BusyPhases, CallPhases
  <2>5. Keeps(ch, q)
    BY <1>1, <1>2, <1>4, <2>1, <2>2, <2>3, <2>4 DEF Keeps
  <2>. QED BY <2>5 DEF Works
<1>. QED BY <1>1, <1>8, <1>9, <1>10

\* The backoff is over.
LEMMA BackoffEndsWorks == ASSUME IInv, NEW ch \in Channels, BackoffEnds(ch) PROVE Works(ch)
<1>. DEFINE l == lane[ch]
            q == [lane[ch] EXCEPT !.phase = "relock"]
<1>1. /\ l.phase = "backoff" /\ lane' = [lane EXCEPT ![ch] = q]
      /\ UNCHANGED <<bus, abandoned, loop, lock, host, outcomes, published, ghosts>>
  BY DEF BackoffEnds
<1>2. l.phase \in BusyPhases /\ l.phase \in RetryPhases
  BY <1>1 DEF BusyPhases, RetryPhases
<1>3. /\ l \in LaneRecords /\ l.msg \notin Acknowledged /\ Attempts(l, final[l.msg])
      /\ final[l.msg] \in SUBSET Transports /\ final = [final EXCEPT ![l.msg] = final[l.msg]]
  BY <1>2, BusyFacts, LaneFacts DEF LaneOK
<1>4. /\ q \in LaneRecords /\ q.phase = "relock" /\ q.msg = l.msg /\ q.backlog = l.backlog
      /\ q.cancelled = l.cancelled /\ q.attempted = l.attempted /\ q.failed = l.failed
  BY <1>3 DEF LaneRecords, Phases, BusyPhases
<1>. HIDE DEF q
<1>5. Attempts(q, final[l.msg])
  BY <1>1, <1>3, <1>4 DEF Attempts
<1>6. q.phase \in BusyPhases \ {"lock"} /\ q.phase \notin CallPhases
  BY <1>4 DEF BusyPhases, CallPhases
<1>7. final' = final /\ started' = started /\ settled' = settled /\ UNCHANGED <<queue, unfinished, fetched>>
  BY <1>1 DEF ghosts, bus
<1>8. Keeps(ch, q)
  BY <1>1, <1>2, <1>3, <1>4, <1>5, <1>6, <1>7 DEF Keeps
<1>. QED BY <1>8 DEF Works

\* The second attempt at an ordinary message.
LEMMA RetryWorks == ASSUME IInv, NEW ch \in Channels, Retry(ch) PROVE Works(ch)
<1>. DEFINE l == lane[ch]
            m == lane[ch].msg
            targets == RetryTargets(ch)
<1>1. /\ Granted(ch, "relock")
      /\ (MayDeliver(m) /\ Call(ch, l, "recall", targets)) \/ Leave(ch)
      /\ UNCHANGED <<queue, fetched, loop, host, outcomes, published, final>>
  BY DEF Retry
<1>2. l.phase = "relock" /\ l.phase \in BusyPhases /\ l.phase \in RetryPhases /\ lock \in {None, ch}
  BY <1>1, LockFree DEF Granted, RetryPhases
<1>3. /\ m \in Messages /\ final[m] \in SUBSET Transports
      /\ final = [final EXCEPT ![m] = final[m]] /\ answer \in [Acknowledged -> Answers]
      /\ l \in LaneRecords /\ subscribers[ch] \in SUBSET Transports /\ m \notin Acknowledged
      /\ final[m] \cup l.failed \subseteq l.attempted /\ final[m] \cap l.failed = {}
  BY <1>2, BusyFacts, LaneFacts DEF Attempts, LaneOK
<1>4. targets \subseteq subscribers[ch] /\ final[m] \cap targets = {}
  BY <1>3 DEF RetryTargets
<1>. HIDE DEF targets
<1>5. CASE MayDeliver(m) /\ Call(ch, l, "recall", targets)
  <2>1. \E q : Keeps(ch, q)
    BY <1>1, <1>2, <1>3, <1>4, <1>5, CallKeeps DEF MayDeliver
  <2>. QED BY <2>1 DEF Works
<1>6. CASE Leave(ch)
  BY <1>1, <1>2, <1>3, <1>6, LeaveWorks DEF outcomes
<1>. QED BY <1>1, <1>5, <1>6

\* The round goes on with its next transport, or ends.
LEMMA NextRetryWorks ==
    ASSUME IInv, NEW ch \in Channels, lane[ch].phase \in {"recall", "notice"}, NextRetry(ch),
           NEW D \in SUBSET Transports, final' = [final EXCEPT ![lane[ch].msg] = D],
           final[lane[ch].msg] \subseteq D, D \cap lane[ch].todo = {},
           UNCHANGED <<queue, fetched, loop, host, outcomes, published>>
    PROVE  Works(ch)
<1>. DEFINE u == Uncancelled(ch)
            m == lane[ch].msg
<1>1. /\ lane[ch].phase \in CallPhases /\ lane[ch].phase \in RetryPhases
      /\ lane[ch].phase \in BusyPhases /\ lock \in {None, ch}
  BY LockFree DEF CallPhases, RetryPhases
<1>2. /\ m \in Messages /\ answer \in [Acknowledged -> Answers] /\ lane[ch] \in LaneRecords
      /\ lane[ch].todo \subseteq subscribers[ch] /\ m \notin Acknowledged
      /\ lane[ch].todo \in SUBSET Transports
  BY <1>1, BusyFacts, LaneFacts, RecordFields DEF LaneOK
<1>3. u \in LaneRecords /\ ~u.cancelled /\ u.msg = m /\ u.backlog = lane[ch].backlog
  BY <1>2, UncancelledFields
<1>4. (MayDeliver(m) /\ Call(ch, u, "recall", lane[ch].todo)) \/ Leave(ch)
  BY DEF NextRetry
<1>. HIDE DEF u
<1>5. CASE MayDeliver(m) /\ Call(ch, u, "recall", lane[ch].todo)
  <2>1. \E q : Keeps(ch, q)
    BY <1>1, <1>2, <1>3, <1>5, CallKeeps DEF MayDeliver
  <2>. QED BY <2>1 DEF Works
<1>6. CASE Leave(ch)
  BY <1>1, <1>2, <1>6, LeaveWorks DEF outcomes
<1>. QED BY <1>4, <1>5, <1>6

\* A callback of the second attempt is over.
LEMMA RetryReturnsWorks ==
    ASSUME IInv, NEW ch \in Channels, NEW outcome \in {"done", "refused", "error"},
           RetryReturns(ch, outcome)
    PROVE  Works(ch)
<1>. DEFINE m == lane[ch].msg
            D == DoneWith(ch, outcome)
            u == Uncancelled(ch)
            q == [u EXCEPT !.phase = "notice"]
            Notices == /\ outcome = "error" /\ MayDeliver(m)
                       /\ lane' = [lane EXCEPT ![ch] = q]
                       /\ UNCHANGED <<unfinished, abandoned, lock, settled, started>>
<1>1. /\ lane[ch].phase = "recall" /\ Noted(ch, outcome)
      /\ Notices \/ NextRetry(ch)
      /\ UNCHANGED <<queue, fetched, loop, host, outcomes, published>>
  BY DEF RetryReturns
<1>2. /\ lane[ch].phase \in CallPhases /\ lane[ch].phase \in RetryPhases
      /\ lane[ch].phase \in BusyPhases /\ lock \in {None, ch}
  BY <1>1, LockFree DEF CallPhases, RetryPhases
<1>3. /\ m \in Messages /\ lane[ch] \in LaneRecords /\ m \notin Acknowledged
      /\ lock = ch /\ lane[ch].transport \in subscribers[ch] \ lane[ch].todo
      /\ lane[ch].todo \subseteq subscribers[ch]
      /\ final[m] \cap (lane[ch].todo \cup {lane[ch].transport}) = {}
  BY <1>1, <1>2, BusyFacts, LaneFacts DEF LaneOK, Attempts
<1>4. D \in SUBSET Transports /\ final[m] \subseteq D /\ final' = [final EXCEPT ![m] = D]
  BY <1>1, <1>2, NotedFinal
<1>5. D \cap lane[ch].todo = {} /\ (outcome = "error" => D = final[m])
  BY <1>3 DEF DoneWith
<1>. HIDE DEF D
<1>6. CASE Notices
  <2>1. /\ u \in LaneRecords /\ ~u.cancelled /\ u.msg = m /\ u.transport = lane[ch].transport
        /\ u.todo = lane[ch].todo /\ u.backlog = lane[ch].backlog
    BY <1>3, UncancelledFields
  <2>. HIDE DEF u
  <2>2. /\ q \in LaneRecords /\ ~q.cancelled /\ q.phase = "notice" /\ q.msg = m
        /\ q.transport = lane[ch].transport /\ q.todo = lane[ch].todo
        /\ q.backlog = lane[ch].backlog
    BY <2>1 DEF LaneRecords, Phases, BusyPhases, CallPhases
  <2>3. /\ lane' = [lane EXCEPT ![ch] = q] /\ outcome = "error" /\ m \notin revoked
        /\ UNCHANGED <<unfinished, abandoned, lock, settled, started>>
    BY <1>6 DEF MayDeliver
  <2>. HIDE DEF q
  <2>4. Attempts(q, D)
    BY <1>3, <1>5, <2>2, <2>3 DEF Attempts
  <2>5. q.phase \in BusyPhases \ {"lock"}
    BY <2>2 DEF BusyPhases, CallPhases
  <2>6. Keeps(ch, q)
    BY <1>1, <1>2, <1>3, <1>4, <2>2, <2>3, <2>4, <2>5 DEF Keeps
  <2>. QED BY <2>6 DEF Works
<1>7. CASE NextRetry(ch)
  BY <1>1, <1>4, <1>5, <1>7, NextRetryWorks
<1>. QED BY <1>1, <1>6, <1>7

\* The notice of a failed delivery is over.
LEMMA NoticeReturnsWorks == ASSUME IInv, NEW ch \in Channels, NoticeReturns(ch) PROVE Works(ch)
<1>. DEFINE m == lane[ch].msg
<1>1. /\ lane[ch].phase = "notice" /\ NextRetry(ch)
      /\ UNCHANGED <<queue, fetched, loop, host, outcomes, published, final>>
  BY DEF NoticeReturns
<1>2. lane[ch].phase \in BusyPhases
  BY <1>1 DEF BusyPhases, CallPhases
<1>3. /\ final[m] \in SUBSET Transports /\ final = [final EXCEPT ![m] = final[m]]
      /\ final[m] \cap lane[ch].todo = {}
  BY <1>1, <1>2, BusyFacts, LaneFacts DEF Attempts
<1>. QED BY <1>1, <1>3, NextRetryWorks

\* A lane is cancelled through its callback, or fails.
LEMMA DisturbedWorks ==
    ASSUME IInv, NEW ch \in Channels, CallbackCancelled(ch) \/ LaneFailed(ch) \/ AbandonedEnds(ch)
    PROVE  Works(ch)
<1>1. CASE CallbackCancelled(ch)
  <2>1. CallbackCancels /\ EndsAs(ch, "cancelled") /\ lane[ch].phase \in BusyPhases
    BY <1>1 DEF CallbackCancelled, BusyPhases
  <2>. QED BY <2>1, EndsWorks
<1>2. CASE LaneFailed(ch)
  <2>1. EndsAs(ch, "failed") /\ lane[ch].phase \in BusyPhases
    BY <1>2, LockFree DEF LaneFailed
  <2>. QED BY <2>1, EndsWorks
<1>3. CASE AbandonedEnds(ch)
  <2>1. ch \in abandoned /\ lane[ch].phase \in BusyPhases \cup {"created"}
    BY <1>3, LaneFacts DEF AbandonedEnds, LaneOK, IInv, TableOK
  <2>2. CASE lane[ch].phase = "created"
    BY <1>3, <2>1, <2>2 DEF AbandonedEnds, Works, Vanishes
  <2>3. CASE lane[ch].phase # "created"
    <3>1. EndsAs(ch, "cancelled") /\ lane[ch].phase \in BusyPhases
      BY <1>3, <2>1, <2>3 DEF AbandonedEnds
    <3>. QED BY <2>1, <3>1, EndsWorks
  <2>. QED BY <2>2, <2>3
<1>. QED BY <1>1, <1>2, <1>3

\* Every action of a lane's task is of one of these kinds.
LEMMA LanesWork ==
    ASSUME IInv, Delivering \/ Disturbing
    PROVE  \E ch \in Channels : Works(ch)
<1>1. CASE Delivering
  BY <1>1, LaneStartsWorks, DeliverAcknowledgedWorks, DeliverWorks, BackoffEndsWorks,
     RetryWorks, AcknowledgedReturnsWorks, CallReturnsWorks, RetryReturnsWorks,
     NoticeReturnsWorks DEF Delivering, Returns
<1>2. CASE Disturbing
  BY <1>2, DisturbedWorks DEF Disturbing
<1>. QED BY <1>1, <1>2

-----------------------------------------------------------------------------
(* What a step does to the channels' lines                                 *)

SameBut(c) ==
    \A d \in Channels \ {c} : Line(d)' = Line(d) /\ Active(d)' = Active(d)

Resting ==
    /\ \A d \in Channels : Line(d)' = Line(d) /\ Active(d)' = Active(d)
    /\ UNCHANGED <<published, settled, unfinished>>

\* A new message is the last of its channel's line.
Entered(m) ==
    /\ m \in Messages \ ToSet(published) /\ published' = Append(published, m)
    /\ \A d \in Channels :
          /\ Line(d)' = IF d = ChannelOf[m] THEN Append(Line(d), m) ELSE Line(d)
          /\ Active(d)' = Active(d)
    /\ settled' = settled /\ unfinished' = unfinished + 1

\* The message in delivery, if any, is settled and the next one begins, if any.
Advanced(c) ==
    /\ SameBut(c) /\ published' = published
    /\ settled' = settled \cup ({Active(c)} \ {None})
    /\ unfinished' = IF Active(c) = None THEN unfinished ELSE unfinished - 1
    /\ \/ Line(c) # <<>> /\ Active(c)' = Head(Line(c)) /\ Line(c)' = Tail(Line(c))
       \/ Active(c)' = None /\ Line(c)' = Line(c)

\* A message passes those that a cancelled lane gave back.
Overtaken(c) ==
    /\ CallbackCancels
    /\ SameBut(c) /\ Active(c)' = Active(c)
    /\ \E b, r \in Seq(Messages), m \in Messages :
          Line(c) = b \o (<<m>> \o r) /\ Line(c)' = <<m>> \o (b \o r)
    /\ UNCHANGED <<published, settled, unfinished>>

LineMove ==
    \/ Resting
    \/ \E m \in Messages : Entered(m)
    \/ \E c \in Channels : Advanced(c)
    \/ \E c \in Channels : Overtaken(c)

\* What waits for a channel outside its lane.
Rest(c) == Of(c, Fetched) \o Of(c, queue)

\* The parts of a line.
LEMMA LineParts ==
    ASSUME IInv, NEW c \in Channels
    PROVE  /\ BacklogsOK /\ lane[c].backlog \in Seq(Messages)
           /\ queue \in Seq(Messages) /\ Fetched \in Seq(Messages)
           /\ Of(c, Fetched) \in Seq(Messages) /\ Of(c, queue) \in Seq(Messages)
           /\ Rest(c) \in Seq(Messages) /\ Line(c) = lane[c].backlog \o Rest(c)
<1>1. queue \in Seq(Messages) /\ fetched \in Messages \cup {None}
  BY DEF IInv, TypeOK
<1>2. Fetched \in Seq(Messages)
  BY <1>1, EmptySeq DEF Fetched
<1>3. \A d \in Channels : lane[d].backlog \in Seq(Messages) /\ AllFor(d, lane[d].backlog)
  BY LaneFacts, RecordFields DEF LaneOK
<1>4. Of(c, Fetched) \in Seq(Messages) /\ Of(c, queue) \in Seq(Messages)
  BY <1>1, <1>2, BitsType
<1>5. Of(c, Fetched \o queue) = Rest(c)
  BY <1>1, <1>2, OfConcat DEF Rest
<1>6. Rest(c) \in Seq(Messages)
  BY <1>4, ConcatProperties DEF Rest
<1>. QED BY <1>1, <1>2, <1>3, <1>4, <1>5, <1>6 DEF BacklogsOK, Line

\* What one lane's change does to the lines.
LEMMA LaneLines ==
    ASSUME IInv, NEW c \in Channels, NEW q, lane' = [lane EXCEPT ![c] = q],
           queue' = queue, fetched' = fetched
    PROVE  /\ SameBut(c) /\ Line(c)' = q.backlog \o Rest(c) /\ Active(c)' = q.msg
<1>1. lane'[c] = q /\ \A d \in Channels \ {c} : lane'[d] = lane[d]
  BY LaneFacts
<1>2. Fetched' = Fetched
  BY DEF Fetched
<1>3. \A d : Of(d, Fetched \o queue)' = Of(d, Fetched \o queue)
  BY <1>2 DEF Of
<1>4. Of(c, Fetched \o queue) = Rest(c)
  BY LineParts, OfConcat DEF Rest
<1>. QED BY <1>1, <1>3, <1>4 DEF SameBut, Line, Active

\* The first of two sequences is taken.
LEMMA HeadTailConcat ==
    ASSUME NEW M, NEW b \in Seq(M), b # <<>>, NEW r \in Seq(M)
    PROVE  b \o r # <<>> /\ Head(b \o r) = Head(b) /\ Tail(b \o r) = Tail(b) \o r
<1>. DEFINE s == b \o r
            t == Tail(b) \o r
<1>1. /\ s \in Seq(M) /\ Len(s) = Len(b) + Len(r) /\ Len(b) \in Nat /\ Len(r) \in Nat
      /\ \A i \in 1..(Len(b) + Len(r)) : s[i] = IF i <= Len(b) THEN b[i] ELSE r[i - Len(b)]
  BY ConcatProperties, LenProperties
<1>2. /\ Len(b) # 0 /\ Head(b) = b[1] /\ Tail(b) \in Seq(M) /\ Len(Tail(b)) = Len(b) - 1
      /\ \A i \in 1..(Len(b) - 1) : Tail(b)[i] = b[i + 1]
  BY <1>1, HeadTailProperties, EmptySeq
<1>3. s # <<>>
  BY <1>1, <1>2, EmptySeq
<1>4. Head(s) = s[1] /\ s[1] = b[1]
  BY <1>1, <1>2, <1>3
<1>5. /\ Tail(s) \in Seq(M) /\ Len(Tail(s)) = Len(s) - 1
      /\ \A i \in 1..(Len(s) - 1) : Tail(s)[i] = s[i + 1]
  BY <1>1, <1>3, HeadTailProperties
<1>6. /\ t \in Seq(M) /\ Len(t) = (Len(b) - 1) + Len(r)
      /\ \A i \in 1..((Len(b) - 1) + Len(r)) :
            t[i] = IF i <= Len(b) - 1 THEN Tail(b)[i] ELSE r[i - (Len(b) - 1)]
  <2>. DEFINE a == Tail(b)
  <2>1. a \in Seq(M) /\ Len(a) = Len(b) - 1
    BY <1>2
  <2>. HIDE DEF a
  <2>2. /\ a \o r \in Seq(M) /\ Len(a \o r) = Len(a) + Len(r)
        /\ \A i \in 1..(Len(a) + Len(r)) : (a \o r)[i] = IF i <= Len(a) THEN a[i] ELSE r[i - Len(a)]
    BY <2>1, ConcatProperties
  <2>. QED BY <2>1, <2>2 DEF a
<1>. HIDE DEF s, t
<1>7. \A i \in 1..Len(t) : Tail(s)[i] = t[i]
  <2>. TAKE i \in 1..Len(t)
  <2>1. i \in 1..((Len(b) - 1) + Len(r)) /\ i \in Nat /\ i + 1 \in 1..(Len(b) + Len(r))
    BY <1>1, <1>2, <1>6
  <2>2. Tail(s)[i] = s[i + 1]
    BY <1>1, <1>5, <2>1
  <2>3. CASE i <= Len(b) - 1
    <3>1. i + 1 <= Len(b) /\ i \in 1..(Len(b) - 1)
      BY <1>1, <2>1, <2>3
    <3>2. s[i + 1] = b[i + 1] /\ t[i] = Tail(b)[i] /\ Tail(b)[i] = b[i + 1]
      BY <1>1, <1>2, <1>6, <2>1, <2>3, <3>1
    <3>. QED BY <2>2, <3>2
  <2>4. CASE ~(i <= Len(b) - 1)
    <3>1. ~(i + 1 <= Len(b)) /\ (i + 1) - Len(b) = i - (Len(b) - 1)
      BY <1>1, <2>1, <2>4
    <3>2. s[i + 1] = r[(i + 1) - Len(b)] /\ t[i] = r[i - (Len(b) - 1)]
      BY <1>1, <1>6, <2>1, <2>4, <3>1
    <3>. QED BY <2>2, <3>1, <3>2
  <2>. QED BY <2>3, <2>4
<1>8. Tail(s) = t
  <2>1. Len(Tail(s)) = Len(t)
    BY <1>1, <1>2, <1>5, <1>6
  <2>. QED BY <1>5, <1>6, <1>7, <2>1, SeqEqual
<1>. QED BY <1>2, <1>3, <1>4, <1>8 DEF s, t

\* A channel's line begins with its lane's backlog.
LEMMA LineHead ==
    ASSUME IInv, NEW c \in Channels, lane[c].backlog # <<>>
    PROVE  /\ Line(c) # <<>> /\ Head(Line(c)) = Head(lane[c].backlog)
           /\ Tail(Line(c)) = Tail(lane[c].backlog) \o Rest(c)
<1>. DEFINE b == lane[c].backlog
            r == Rest(c)
<1>1. b \in Seq(Messages) /\ r \in Seq(Messages) /\ Line(c) = b \o r
  BY LineParts
<1>. HIDE DEF b, r
<1>2. b # <<>>
  BY DEF b
<1>3. b \o r # <<>> /\ Head(b \o r) = Head(b) /\ Tail(b \o r) = Tail(b) \o r
  BY <1>1, <1>2, HeadTailConcat
<1>. QED BY <1>1, <1>3 DEF b, r

\* A lane's task moves its channel's line.
LEMMA WorksMove ==
    ASSUME IInv, NEW c \in Channels, Works(c)
    PROVE  LineMove
<1>1. ASSUME NEW q, Keeps(c, q) PROVE LineMove
  <2>1. SameBut(c) /\ Line(c)' = q.backlog \o Rest(c) /\ Active(c)' = q.msg
    BY <1>1, LaneLines DEF Keeps
  <2>2. q.backlog = lane[c].backlog /\ q.msg = lane[c].msg /\ UNCHANGED <<published, settled, unfinished>>
    BY <1>1 DEF Keeps
  <2>. QED BY <2>1, <2>2, LineParts DEF LineMove, Resting, SameBut, Active
<1>2. ASSUME NEW q, Leaves(c, q) PROVE LineMove
  <2>1. SameBut(c) /\ Line(c)' = q.backlog \o Rest(c) /\ Active(c)' = q.msg
    BY <1>2, LaneLines DEF Leaves
  <2>2. /\ Active(c) # None /\ settled' = settled \cup {Active(c)} /\ unfinished' = unfinished - 1
        /\ published' = published
    BY <1>2, BusyFacts, ChannelAssumption DEF Leaves, Active
  <2>3. CASE q.msg = None /\ q.backlog = lane[c].backlog
    BY <2>1, <2>2, <2>3, LineParts DEF LineMove, Advanced
  <2>4. CASE lane[c].backlog # <<>> /\ q.msg = Head(lane[c].backlog) /\ q.backlog = Tail(lane[c].backlog)
    <3>1. /\ Line(c) # <<>> /\ Head(Line(c)) = Head(lane[c].backlog)
          /\ Tail(Line(c)) = Tail(lane[c].backlog) \o Rest(c)
      BY <2>4, LineHead
    <3>. QED BY <2>1, <2>2, <2>4, <3>1 DEF LineMove, Advanced
  <2>. QED BY <1>2, <2>3, <2>4 DEF Leaves
<1>3. ASSUME NEW q, Begins(c, q) PROVE LineMove
  <2>1. SameBut(c) /\ Line(c)' = q.backlog \o Rest(c) /\ Active(c)' = q.msg
    BY <1>3, LaneLines DEF Begins, bus
  <2>2. /\ Active(c) = None /\ settled' = settled /\ unfinished' = unfinished
        /\ published' = published
    <3>1. lane[c].phase \notin BusyPhases
      BY <1>3 DEF Begins, BusyPhases, CallPhases
    <3>. QED BY <1>3, <3>1, LaneFacts DEF Begins, bus, ghosts, LaneOK, Active
  <2>3. CASE q.msg = None /\ q.backlog = lane[c].backlog
    BY <2>1, <2>2, <2>3, LineParts DEF LineMove, Advanced
  <2>4. CASE lane[c].backlog # <<>> /\ q.msg = Head(lane[c].backlog) /\ q.backlog = Tail(lane[c].backlog)
    <3>1. /\ Line(c) # <<>> /\ Head(Line(c)) = Head(lane[c].backlog)
          /\ Tail(Line(c)) = Tail(lane[c].backlog) \o Rest(c)
      BY <2>4, LineHead
    <3>. QED BY <2>1, <2>2, <2>4, <3>1 DEF LineMove, Advanced
  <2>. QED BY <1>3, <2>3, <2>4 DEF Begins
<1>4. ASSUME Vanishes(c) PROVE LineMove
  <2>1. SameBut(c) /\ Line(c)' = NoLane.backlog \o Rest(c) /\ Active(c)' = NoLane.msg
    BY <1>4, LaneLines DEF Vanishes, bus
  <2>2. UNCHANGED <<published, settled, unfinished>>
    BY <1>4 DEF Vanishes, bus, ghosts
  <2>3. lane[c].backlog = <<>> /\ lane[c].msg = None
    <3>1. lane[c].phase \notin BusyPhases
      BY <1>4 DEF Vanishes, BusyPhases, CallPhases
    <3>. QED BY <1>4, <3>1, LaneFacts DEF Vanishes, LaneOK, IInv, TableOK
  <2>. QED BY <2>1, <2>2, <2>3, NoLaneFields, LineParts DEF LineMove, Resting, SameBut, Active
<1>. QED BY <1>1, <1>2, <1>3, <1>4 DEF Works

\* Sequences put together in another order of brackets.
Brackets(b, f, q) ==
    /\ ((<<>> \o f) \o b) \o q = f \o (b \o q)
    /\ ((b \o f) \o <<>>) \o q = b \o (f \o q)
    /\ (<<>> \o f) \o (b \o q) = f \o (b \o q)
    /\ (b \o f) \o (<<>> \o q) = b \o (f \o q)

\* They are the same.
LEMMA Regroup ==
    ASSUME NEW b \in Seq(Messages), NEW f \in Seq(Messages), NEW q \in Seq(Messages)
    PROVE  Brackets(b, f, q)
<1>1. <<>> \o f = f /\ <<>> \o q = q
  BY ConcatEmptySeq
<1>2. b \o f \in Seq(Messages) /\ f \o b \in Seq(Messages)
  BY ConcatProperties
<1>3. (b \o f) \o <<>> = b \o f
  BY <1>2, ConcatEmptySeq
<1>4. (f \o b) \o q = f \o (b \o q) /\ (b \o f) \o q = b \o (f \o q)
  BY ConcatAssociative
<1>. QED BY <1>1, <1>3, <1>4 DEF Brackets

\* Cancelled lanes R give their backlogs back behind what was fetched.
GivenBack(R) ==
    /\ \A d \in Channels :
          /\ Line(d)' = IF d \in R THEN Of(d, Fetched) \o (lane[d].backlog \o Of(d, queue))
                        ELSE Line(d)
          /\ Active(d)' = Active(d)
    /\ UNCHANGED <<published, settled, unfinished>>

\* At most the fetched message overtakes.
LEMMA GivenBackMove ==
    ASSUME IInv, NEW R \in SUBSET InPhase("cancelled"), GivenBack(R)
    PROVE  LineMove
<1>1. \A d \in Channels : d \in R => CallbackCancels
  BY LaneFacts DEF InPhase, LaneOK
<1>2. ASSUME NEW d \in R, Of(d, Fetched) = <<>> PROVE Line(d)' = Line(d)
  <2>1. d \in Channels
    BY DEF InPhase
  <2>2. lane[d].backlog \in Seq(Messages) /\ Of(d, queue) \in Seq(Messages)
    BY <2>1, LineParts
  <2>3. <<>> \o Of(d, queue) = Of(d, queue)
        /\ <<>> \o (lane[d].backlog \o Of(d, queue)) = lane[d].backlog \o Of(d, queue)
    BY <2>2, ConcatEmptySeq, ConcatProperties
  <2>. QED BY <1>2, <2>1, <2>3, LineParts DEF GivenBack, Rest
<1>3. CASE fetched = None
  <2>1. \A d \in Channels : Of(d, Fetched) = <<>>
    BY <1>3, OfEmpty DEF Fetched
  <2>. QED BY <1>2, <2>1 DEF GivenBack, LineMove, Resting, InPhase
<1>4. CASE fetched # None
  <2>1. fetched \in Messages /\ Fetched = <<fetched>> /\ ChannelOf[fetched] \in Channels
    BY <1>4, ChannelAssumption DEF IInv, TypeOK, Fetched
  <2>6. PICK c \in Channels : c = ChannelOf[fetched]
    BY <2>1
  <2>2. \A d \in Channels : Of(d, Fetched) = IF d = c THEN <<fetched>> ELSE <<>>
    BY <2>1, <2>6, OfOne DEF Bit
  <2>3. \A d \in Channels \ {c} : Line(d)' = Line(d)
    BY <1>2, <2>2 DEF GivenBack, InPhase
  <2>4. CASE c \notin R
    BY <2>3, <2>4 DEF GivenBack, LineMove, Resting
  <2>5. CASE c \in R
    <3>1. c \in Channels /\ CallbackCancels
      BY <1>1, <2>5 DEF InPhase
    <3>2. /\ Line(c)' = <<fetched>> \o (lane[c].backlog \o Of(c, queue))
          /\ Line(c) = lane[c].backlog \o (<<fetched>> \o Of(c, queue))
      <4>1. Of(c, Fetched) = <<fetched>>
        BY <2>2, <3>1
      <4>2. Line(c)' = Of(c, Fetched) \o (lane[c].backlog \o Of(c, queue))
        BY <2>5, <3>1 DEF GivenBack
      <4>3. Line(c) = lane[c].backlog \o (Of(c, Fetched) \o Of(c, queue))
        BY <3>1, LineParts DEF Rest
      <4>. QED BY <4>1, <4>2, <4>3
    <3>3. lane[c].backlog \in Seq(Messages) /\ Of(c, queue) \in Seq(Messages)
      BY <3>1, LineParts
    <3>4. \E b, r \in Seq(Messages), m \in Messages :
             Line(c) = b \o (<<m>> \o r) /\ Line(c)' = <<m>> \o (b \o r)
      BY <2>1, <3>2, <3>3
    <3>5. SameBut(c) /\ Active(c)' = Active(c) /\ UNCHANGED <<published, settled, unfinished>>
      BY <2>3, <3>1 DEF SameBut, GivenBack
    <3>6. Overtaken(c)
      BY <3>1, <3>4, <3>5 DEF Overtaken
    <3>. QED BY <3>1, <3>6 DEF LineMove
  <2>. QED BY <2>4, <2>5
<1>. QED BY <1>3, <1>4

\* The lanes that are left of the table.
LEMMA ReapedFields ==
    ASSUME IInv, NEW d \in Channels
    PROVE  /\ Reaped[d] \in LaneRecords /\ Reaped[d].msg = lane[d].msg
           /\ Reaped[d].backlog = IF d \in InPhase("cancelled") THEN <<>> ELSE lane[d].backlog
           /\ Reaped[d] = lane[d] \/ Reaped[d] = NoLane
           /\ d \in abandoned => Reaped[d] = lane[d]
           /\ Reaped[d].phase \notin {"ended", "cancelled"}
           /\ Reaped[d].phase = "none" => Reaped[d] = NoLane
<1>1. Reaped[d] = IF lane[d].phase \in {"ended", "cancelled"} THEN NoLane ELSE lane[d]
  BY DEF Reaped
<1>2. lane[d].phase \in {"ended", "cancelled"} => lane[d].phase \notin BusyPhases
  BY DEF BusyPhases, CallPhases
<1>3. d \in abandoned => lane[d].phase \in BusyPhases \cup {"created"}
  BY DEF IInv, TableOK
<1>. QED BY <1>1, <1>2, <1>3, LaneFacts, NoLaneFields DEF LaneOK, InPhase

\* Backlogs before the queue.
LEMMA BeforeQueue ==
    ASSUME IInv, NEW s \in Seq(Messages), NEW d \in Channels, fetched' = None, queue' = s \o queue
    PROVE  Of(d, Fetched \o queue)' = Of(d, s) \o Of(d, queue)
<1>1. Fetched' = <<>>
  BY DEF Fetched
<1>2. queue \in Seq(Messages)
  BY DEF IInv, TypeOK
<1>3. s \o queue \in Seq(Messages) /\ <<>> \o (s \o queue) = s \o queue
  BY <1>2, ConcatProperties, ConcatEmptySeq
<1>4. Of(d, s \o queue) = Of(d, s) \o Of(d, queue)
  BY <1>2, OfConcat
<1>5. Of(d, Fetched \o queue)' = Of(d, s \o queue)
  BY <1>1, <1>3 DEF Of
<1>. QED BY <1>4, <1>5

\* What a message appended to a sequence makes of it.
LEMMA ConcatAppended ==
    ASSUME NEW M, NEW s \in Seq(M), NEW m \in M
    PROVE  Append(s, m) = s \o <<m>> /\ Append(s, m) \in Seq(M)
<1>1. <<m>> \in Seq(M) /\ Len(<<m>>) = 1 /\ <<m>>[1] = m
  OBVIOUS
<1>2. /\ s \o <<m>> \in Seq(M) /\ Len(s \o <<m>>) = Len(s) + 1 /\ Len(s) \in Nat
      /\ \A i \in 1..(Len(s) + 1) :
            (s \o <<m>>)[i] = IF i <= Len(s) THEN s[i] ELSE <<m>>[i - Len(s)]
  BY <1>1, ConcatProperties, LenProperties
<1>3. /\ Append(s, m) \in Seq(M) /\ Len(Append(s, m)) = Len(s) + 1
      /\ Append(s, m)[Len(s) + 1] = m /\ \A i \in 1..Len(s) : Append(s, m)[i] = s[i]
  BY AppendProperties
<1>4. \A i \in 1..(Len(s) + 1) : Append(s, m)[i] = (s \o <<m>>)[i]
  BY <1>1, <1>2, <1>3
<1>. QED BY <1>2, <1>3, <1>4, SeqEqual

-----------------------------------------------------------------------------
(* What the dispatcher does to a lane                                      *)

\* The dispatcher leaves the lane in state q; what it delivers goes on.
ManagedAs(d, q) ==
    LET l == lane[d] IN
    /\ q \in LaneRecords /\ q.msg = l.msg /\ AllFor(d, q.backlog)
    /\ \/ /\ q.phase = l.phase /\ l.phase \notin DonePhases
          /\ q.transport = l.transport /\ q.todo = l.todo
          /\ q.attempted = l.attempted /\ q.failed = l.failed
       \/ q.phase = "created" /\ l.phase \notin BusyPhases
       \/ q = NoLane /\ l.phase \notin BusyPhases
    /\ q.phase = "none" => q = NoLane
    /\ q.cancelled => d \in abandoned'

Managing ==
    /\ lane' \in [Channels -> LaneRecords]
    /\ \A d \in Channels : ManagedAs(d, lane'[d])
    /\ UNCHANGED <<unfinished, lock, host, outcomes, published, ghosts>>

\* The lane that the fetched message is routed to.
LEMMA RouteFields ==
    ASSUME IInv, fetched # None, NEW d \in Channels
    PROVE  LET q == Route(Reaped, fetched)[d] IN
           /\ q \in LaneRecords /\ q.msg = Reaped[d].msg
           /\ q.backlog = Reaped[d].backlog \o Of(d, Fetched)
           /\ \/ q = Reaped[d]
              \/ q.phase = "created" /\ Reaped[d] = NoLane /\ ~q.cancelled
              \/ /\ q.phase = Reaped[d].phase /\ Reaped[d].phase # "none"
                 /\ q.transport = Reaped[d].transport /\ q.todo = Reaped[d].todo
                 /\ q.attempted = Reaped[d].attempted /\ q.failed = Reaped[d].failed
                 /\ q.cancelled = Reaped[d].cancelled
<1>1. fetched \in Messages /\ Fetched = <<fetched>>
  BY DEF IInv, TypeOK, Fetched
<1>2. Of(d, Fetched) = IF ChannelOf[fetched] = d THEN <<fetched>> ELSE <<>>
  BY <1>1, OfOne DEF Bit
<1>3. DOMAIN Reaped = Channels
  BY DEF Reaped
<1>. DEFINE r == Reaped[d]
<1>4. r \in LaneRecords /\ r.backlog \in Seq(Messages) /\ (r.phase = "none" => r = NoLane)
  BY ReapedFields, RecordFields
<1>5. Route(Reaped, fetched)[d] =
        IF ChannelOf[fetched] # d THEN r
        ELSE IF r.phase = "none" THEN NewLane(fetched)
        ELSE [r EXCEPT !.backlog = Append(r.backlog, fetched)]
  <2>1. ChannelOf[fetched] \in Channels
    BY <1>1, ChannelAssumption
  <2>2. CASE ChannelOf[fetched] # d
    BY <1>3, <2>2 DEF Route
  <2>3. CASE ChannelOf[fetched] = d
    BY <1>3, <2>1, <2>3 DEF Route
  <2>. QED BY <2>2, <2>3
<1>. HIDE DEF r
<1>6. CASE ChannelOf[fetched] # d
  <2>1. r.backlog \o <<>> = r.backlog
    BY <1>4, ConcatEmptySeq
  <2>. QED BY <1>2, <1>4, <1>5, <1>6, <2>1 DEF r
<1>7. CASE ChannelOf[fetched] = d /\ r.phase = "none"
  <2>1. /\ NewLane(fetched) \in LaneRecords /\ NewLane(fetched).phase = "created"
        /\ NewLane(fetched).msg = None /\ NewLane(fetched).backlog = <<fetched>>
        /\ ~NewLane(fetched).cancelled
    <3>1. <<fetched>> \in Seq(Messages)
      BY <1>1
    <3>. QED BY <3>1 DEF NewLane, NoLane, LaneRecords, Phases
  <2>2. <<>> \o <<fetched>> = <<fetched>>
    BY <1>1, ConcatEmptySeq
  <2>3. r = NoLane /\ r.msg = None /\ r.backlog = <<>>
    BY <1>4, <1>7, NoLaneFields
  <2>4. r.backlog \o Of(d, Fetched) = <<fetched>>
    BY <1>2, <1>7, <2>2, <2>3
  <2>. QED BY <1>5, <1>7, <2>1, <2>3, <2>4 DEF r
<1>8. CASE ChannelOf[fetched] = d /\ r.phase # "none"
  <2>. DEFINE b == Append(r.backlog, fetched)
  <2>1. b \in Seq(Messages) /\ b = r.backlog \o <<fetched>>
    BY <1>1, <1>4, ConcatAppended
  <2>2. Route(Reaped, fetched)[d] = [r EXCEPT !.backlog = b]
    BY <1>5, <1>8
  <2>. HIDE DEF b
  <2>3. LET q == [r EXCEPT !.backlog = b] IN
        /\ q \in LaneRecords /\ q.msg = r.msg /\ q.backlog = b /\ q.phase = r.phase
        /\ q.transport = r.transport /\ q.todo = r.todo
        /\ q.attempted = r.attempted /\ q.failed = r.failed /\ q.cancelled = r.cancelled
    BY <1>4, <2>1 DEF LaneRecords
  <2>4. b = r.backlog \o Of(d, Fetched)
    BY <1>2, <1>8, <2>1
  <2>. QED BY <1>8, <2>2, <2>3, <2>4 DEF r
<1>. QED BY <1>6, <1>7, <1>8

\* What a turn of the dispatcher makes of the lanes.
LEMMA TurnFields ==
    ASSUME IInv, Dispatch \/ Finish
    PROVE  /\ queue' = Backlogs(InPhase("cancelled")) \o queue /\ fetched' = None
           /\ unfinished' = unfinished /\ abandoned' = abandoned
           /\ lane' \in [Channels -> LaneRecords]
           /\ \A d \in Channels :
                 /\ lane'[d].backlog = Reaped[d].backlog \o Of(d, Fetched)
                 /\ ManagedAs(d, lane'[d])
<1>1. /\ queue' = Backlogs(InPhase("cancelled")) \o queue /\ unfinished' = unfinished
      /\ abandoned' = abandoned /\ InPhase("failed") = {}
  BY DEF Dispatch, Finish, Requeue
<1>2. /\ fetched' = None
      /\ \/ lane' = Reaped /\ fetched = None
         \/ lane' = Route(Reaped, fetched) /\ fetched # None
  <2>1. CASE Dispatch
    BY <2>1 DEF Dispatch
  <2>2. CASE Finish
    BY <2>2 DEF Finish, IInv, TableOK
  <2>. QED BY <2>1, <2>2
<1>3. lane' \in [Channels -> LaneRecords] /\ \A d \in Channels :
         /\ lane'[d].backlog = Reaped[d].backlog \o Of(d, Fetched)
         /\ lane'[d].msg = Reaped[d].msg
         /\ \/ lane'[d] = Reaped[d]
            \/ lane'[d].phase = "created" /\ Reaped[d] = NoLane /\ ~lane'[d].cancelled
            \/ /\ lane'[d].phase = Reaped[d].phase /\ Reaped[d].phase # "none"
               /\ lane'[d].transport = Reaped[d].transport /\ lane'[d].todo = Reaped[d].todo
               /\ lane'[d].attempted = Reaped[d].attempted /\ lane'[d].failed = Reaped[d].failed
               /\ lane'[d].cancelled = Reaped[d].cancelled
  <2>1. CASE fetched = None /\ lane' = Reaped
    <3>1. DOMAIN Reaped = Channels /\ \A d \in Channels : Reaped[d] \in LaneRecords
      BY ReapedFields DEF Reaped
    <3>2. Reaped \in [Channels -> LaneRecords]
      BY <3>1 DEF Reaped
    <3>3. \A d \in Channels : Of(d, Fetched) = <<>>
      BY <2>1, OfEmpty DEF Fetched
    <3>4. \A d \in Channels : Reaped[d].backlog \in Seq(Messages)
      BY <3>1, RecordFields
    <3>5. \A d \in Channels : Reaped[d].backlog \o <<>> = Reaped[d].backlog
      BY <3>4, ConcatEmptySeq
    <3>. QED BY <2>1, <3>2, <3>3, <3>5
  <2>2. CASE fetched # None /\ lane' = Route(Reaped, fetched)
    <3>1. \A d \in Channels : lane'[d] \in LaneRecords
      BY <2>2, RouteFields
    <3>2. lane' = [[d \in Channels |-> lane'[d]] EXCEPT ![ChannelOf[fetched]] = @]
      BY <2>2 DEF Route, Reaped
    <3>3. lane' \in [Channels -> LaneRecords]
      BY <3>1, <3>2
    <3>. QED BY <2>2, <3>3, RouteFields
  <2>. QED BY <1>2, <2>1, <2>2
<1>4. ASSUME NEW d \in Channels PROVE ManagedAs(d, lane'[d])
  <2>1. lane'[d] \in LaneRecords /\ lane'[d].msg = lane[d].msg
    BY <1>3, ReapedFields
  <2>2. AllFor(d, lane'[d].backlog)
    <3>1. /\ Reaped[d].backlog \in Seq(Messages) /\ AllFor(d, Reaped[d].backlog)
          /\ Of(d, Fetched) \in Seq(Messages)
      BY ReapedFields, RecordFields, LaneFacts, LineParts DEF LaneOK, AllFor
    <3>2. AllFor(d, Of(d, Fetched))
      BY OfOne, OfEmpty DEF AllFor, Fetched, Bit, IInv, TypeOK
    <3>3. AllFor(d, Reaped[d].backlog \o Of(d, Fetched))
      BY <3>1, <3>2, ConcatProperties, LenProperties DEF AllFor
    <3>. QED BY <1>3, <3>3
  <2>3. lane[d].phase # "failed" /\ (Reaped[d] = NoLane => lane[d].phase \notin BusyPhases)
    BY <1>1, ReapedFields, NoLaneFields DEF InPhase, Reaped, BusyPhases, CallPhases
  <2>4. lane[d].cancelled => d \in abandoned
    BY LaneFacts DEF LaneOK
  <2>5. lane'[d] = Reaped[d] => (lane'[d] = lane[d] /\ lane[d].phase \notin DonePhases) \/ lane'[d] = NoLane
    BY <2>3, ReapedFields DEF DonePhases
  <2>6. Reaped[d].phase # "none" => Reaped[d] = lane[d] /\ lane[d].phase \notin DonePhases
    BY <2>3, ReapedFields, NoLaneFields DEF DonePhases
  <2>7. \/ /\ lane'[d].phase = lane[d].phase /\ lane[d].phase \notin DonePhases
           /\ lane'[d].transport = lane[d].transport /\ lane'[d].todo = lane[d].todo
           /\ lane'[d].attempted = lane[d].attempted /\ lane'[d].failed = lane[d].failed
           /\ lane'[d].cancelled = lane[d].cancelled
           /\ lane'[d].phase = "none" => lane'[d] = NoLane
        \/ lane'[d].phase = "created" /\ lane[d].phase \notin BusyPhases /\ ~lane'[d].cancelled
        \/ lane'[d] = NoLane /\ lane[d].phase \notin BusyPhases
    BY <1>3, <2>3, <2>5, <2>6, LaneFacts DEF LaneOK
  <2>. QED BY <1>1, <2>1, <2>2, <2>4, <2>7, NoLaneFields DEF ManagedAs
<1>. QED BY <1>1, <1>2, <1>3, <1>4

\* A turn of the dispatcher manages the lanes and their lines.
LEMMA TurnMoves ==
    ASSUME IInv, Dispatch \/ Finish
    PROVE  LineMove /\ Managing
<1>. DEFINE C == InPhase("cancelled")
<1>1. /\ UNCHANGED <<lock, host, outcomes, published, ghosts>>
  BY DEF Dispatch, Finish
<1>2. C \in SUBSET Channels /\ BacklogsOK
  BY LineParts, LaneFacts, RecordFields DEF InPhase, LaneOK, BacklogsOK
<1>3. Backlogs(C) \in Seq(Messages)
      /\ \A d \in Channels : Of(d, Backlogs(C)) = IF d \in C THEN lane[d].backlog ELSE <<>>
  BY <1>2, OfBacklogs
<1>4. ASSUME NEW d \in Channels
      PROVE  Line(d)' = IF d \in C THEN Of(d, Fetched) \o (lane[d].backlog \o Of(d, queue))
                        ELSE Line(d)
  <2>1. Line(d)' = (Reaped[d].backlog \o Of(d, Fetched)) \o (Of(d, Backlogs(C)) \o Of(d, queue))
    <3>1. Of(d, Fetched \o queue)' = Of(d, Backlogs(C)) \o Of(d, queue)
      BY <1>3, TurnFields, BeforeQueue
    <3>2. lane'[d].backlog = Reaped[d].backlog \o Of(d, Fetched)
      BY TurnFields
    <3>3. Line(d)' = lane'[d].backlog \o Of(d, Fetched \o queue)'
      BY DEF Line
    <3>. QED BY <3>1, <3>2, <3>3
  <2>2. /\ lane[d].backlog \in Seq(Messages) /\ Of(d, Fetched) \in Seq(Messages)
        /\ Of(d, queue) \in Seq(Messages)
        /\ Line(d) = lane[d].backlog \o (Of(d, Fetched) \o Of(d, queue))
    BY LineParts DEF Rest
  <2>3. /\ (<<>> \o Of(d, Fetched)) \o (lane[d].backlog \o Of(d, queue))
              = Of(d, Fetched) \o (lane[d].backlog \o Of(d, queue))
        /\ (lane[d].backlog \o Of(d, Fetched)) \o (<<>> \o Of(d, queue))
              = lane[d].backlog \o (Of(d, Fetched) \o Of(d, queue))
    <3>. DEFINE x == lane[d].backlog
                y == Of(d, Fetched)
                z == Of(d, queue)
    <3>1. x \in Seq(Messages) /\ y \in Seq(Messages) /\ z \in Seq(Messages)
      BY <2>2
    <3>. HIDE DEF x, y, z
    <3>2. /\ ((<<>> \o y) \o x) \o z = y \o (x \o z)
          /\ ((x \o y) \o <<>>) \o z = x \o (y \o z)
          /\ (<<>> \o y) \o (x \o z) = y \o (x \o z)
          /\ (x \o y) \o (<<>> \o z) = x \o (y \o z)
      <4>1. Brackets(x, y, z)
        BY <3>1, Regroup
      <4>. QED BY <4>1 DEF Brackets
    <3>. QED BY <3>2 DEF x, y, z
  <2>4. CASE d \in C
    <3>1. Reaped[d].backlog = <<>> /\ Of(d, Backlogs(C)) = lane[d].backlog
      BY <1>3, <2>4, ReapedFields
    <3>. QED BY <2>1, <2>3, <2>4, <3>1
  <2>5. CASE d \notin C
    <3>1. Reaped[d].backlog = lane[d].backlog /\ Of(d, Backlogs(C)) = <<>>
      BY <1>3, <2>5, ReapedFields
    <3>. QED BY <2>1, <2>2, <2>3, <2>5, <3>1
  <2>. QED BY <2>4, <2>5
<1>5. \A d \in Channels : Active(d)' = Active(d)
  BY TurnFields DEF ManagedAs, Active
<1>6. UNCHANGED <<published, settled, unfinished>>
  BY <1>1, TurnFields DEF ghosts
<1>7. LineMove
  <2>1. GivenBack(C)
    BY <1>4, <1>5, <1>6 DEF GivenBack
  <2>. QED BY <2>1, GivenBackMove
<1>. QED BY <1>1, <1>7, TurnFields DEF Managing

\* What becomes of an abandoned lane.
LEMMA AbandonFields ==
    ASSUME IInv, NEW R, Abandon(R)
    PROVE  /\ lane' \in [Channels -> LaneRecords]
           /\ \A d \in Channels :
                 /\ ManagedAs(d, lane'[d]) /\ lane'[d].backlog = <<>>
                 /\ d \in abandoned' <=> lane'[d] # NoLane
                 /\ d \in abandoned' => /\ lane'[d].phase \in BusyPhases \cup {"created"}
                                        /\ lane'[d].cancelled
           /\ abandoned' \subseteq Channels
<1>1. /\ lane' = [ch \in Channels |->
                    IF lane[ch].phase \in BusyPhases \cup {"created"}
                    THEN [lane[ch] EXCEPT !.backlog = <<>>, !.cancelled = TRUE]
                    ELSE NoLane]
      /\ abandoned' = {ch \in Channels : lane'[ch] # NoLane}
  BY DEF Abandon
<1>2. ASSUME NEW d \in Channels
      PROVE  /\ lane'[d] \in LaneRecords /\ ManagedAs(d, lane'[d]) /\ lane'[d].backlog = <<>>
             /\ d \in abandoned' => /\ lane'[d].phase \in BusyPhases \cup {"created"}
                                    /\ lane'[d].cancelled
  <2>1. AllFor(d, <<>>) /\ <<>> \in Seq(Messages)
    BY EmptySeq DEF AllFor
  <2>2. CASE lane[d].phase \in BusyPhases \cup {"created"}
    <3>. DEFINE q == [lane[d] EXCEPT !.backlog = <<>>, !.cancelled = TRUE]
    <3>1. /\ q \in LaneRecords /\ q.backlog = <<>> /\ q.cancelled /\ q.phase = lane[d].phase
          /\ q.msg = lane[d].msg /\ q.transport = lane[d].transport /\ q.todo = lane[d].todo
          /\ q.attempted = lane[d].attempted /\ q.failed = lane[d].failed
      BY <2>1, LaneFacts DEF LaneRecords
    <3>2. lane'[d] = q
      BY <1>1, <2>2
    <3>3. lane[d].phase \notin DonePhases /\ lane[d].phase # "none"
      BY <2>2 DEF BusyPhases, CallPhases, DonePhases
    <3>. HIDE DEF q
    <3>4. d \in abandoned'
      BY <1>1, <3>1, <3>2, <3>3, NoLaneFields
    <3>. QED BY <2>1, <2>2, <3>1, <3>2, <3>3, <3>4 DEF ManagedAs
  <2>3. CASE lane[d].phase \notin BusyPhases \cup {"created"}
    <3>1. lane'[d] = NoLane /\ d \notin abandoned'
      BY <1>1, <2>3
    <3>2. lane[d].msg = None
      BY <2>3, LaneFacts DEF LaneOK
    <3>. QED BY <2>1, <2>3, <3>1, <3>2, NoLaneFields DEF ManagedAs
  <2>. QED BY <2>2, <2>3
<1>3. lane' \in [Channels -> LaneRecords]
  BY <1>1, <1>2
<1>. QED BY <1>1, <1>2, <1>3

\* The dispatcher's abandoning of its lanes.
LEMMA AbandonMoves ==
    ASSUME IInv, NEW R \in SUBSET InPhase("cancelled"), Abandon(R)
    PROVE  LineMove /\ Managing
<1>1. /\ UNCHANGED <<unfinished, lock, host, outcomes, published, ghosts>> /\ fetched' = None
      /\ queue' = ((Backlogs(Channels \ R) \o Fetched) \o Backlogs(R)) \o queue
  BY DEF Abandon, Requeue
<1>2. R \in SUBSET Channels /\ Channels \ R \in SUBSET Channels /\ BacklogsOK
  BY LineParts, LaneFacts, RecordFields DEF InPhase, LaneOK, BacklogsOK
<1>3. /\ Backlogs(R) \in Seq(Messages) /\ Backlogs(Channels \ R) \in Seq(Messages)
      /\ \A d \in Channels :
            /\ Of(d, Backlogs(R)) = IF d \in R THEN lane[d].backlog ELSE <<>>
            /\ Of(d, Backlogs(Channels \ R)) = IF d \in R THEN <<>> ELSE lane[d].backlog
  BY <1>2, OfBacklogs
<1>4. Fetched \in Seq(Messages)
  BY <1>2, EmptySeq DEF IInv, TypeOK, Fetched
<1>5. ASSUME NEW d \in Channels
      PROVE  Line(d)' = IF d \in R THEN Of(d, Fetched) \o (lane[d].backlog \o Of(d, queue))
                        ELSE Line(d)
  <2>. DEFINE a == Backlogs(Channels \ R)
              b == Backlogs(R)
              f == Fetched
  <2>1. a \in Seq(Messages) /\ b \in Seq(Messages) /\ f \in Seq(Messages)
    BY <1>3, <1>4
  <2>. HIDE DEF a, b, f
  <2>2. /\ (a \o f) \o b \in Seq(Messages)
        /\ Of(d, (a \o f) \o b) = (Of(d, a) \o Of(d, f)) \o Of(d, b)
    <3>1. a \o f \in Seq(Messages) /\ Of(d, a \o f) = Of(d, a) \o Of(d, f)
      BY <2>1, OfConcat
    <3>. DEFINE e == a \o f
    <3>2. e \in Seq(Messages)
      BY <3>1
    <3>. HIDE DEF e
    <3>3. e \o b \in Seq(Messages) /\ Of(d, e \o b) = Of(d, e) \o Of(d, b)
      BY <2>1, <3>2, OfConcat
    <3>. QED BY <3>1, <3>3 DEF e
  <2>3. (a \o f) \o b = (Backlogs(Channels \ R) \o Fetched) \o Backlogs(R)
    BY DEF a, b, f
  <2>4. Of(d, Fetched \o queue)' = ((Of(d, a) \o Of(d, f)) \o Of(d, b)) \o Of(d, queue)
    <3>. DEFINE s == (a \o f) \o b
    <3>1. s \in Seq(Messages) /\ queue' = s \o queue
      BY <1>1, <2>2, <2>3
    <3>. HIDE DEF s
    <3>2. Of(d, Fetched \o queue)' = Of(d, s) \o Of(d, queue)
      BY <1>1, <3>1, BeforeQueue
    <3>. QED BY <2>2, <3>2 DEF s
  <2>5. Line(d)' = ((Of(d, a) \o Of(d, f)) \o Of(d, b)) \o Of(d, queue)
    <3>1. Line(d)' = <<>> \o Of(d, Fetched \o queue)'
      <4>1. Line(d)' = lane'[d].backlog \o Of(d, Fetched \o queue)'
        BY DEF Line
      <4>2. lane'[d].backlog = <<>>
        BY AbandonFields
      <4>. QED BY <4>1, <4>2
    <3>2. Of(d, a) \in Seq(Messages) /\ Of(d, f) \in Seq(Messages) /\ Of(d, b) \in Seq(Messages)
          /\ Of(d, queue) \in Seq(Messages)
      BY <2>1, BitsType, LineParts
    <3>3. ((Of(d, a) \o Of(d, f)) \o Of(d, b)) \o Of(d, queue) \in Seq(Messages)
      BY <3>2, ConcatProperties
    <3>. QED BY <2>4, <3>1, <3>3, ConcatEmptySeq
  <2>6. /\ lane[d].backlog \in Seq(Messages) /\ Of(d, Fetched) \in Seq(Messages)
        /\ Of(d, queue) \in Seq(Messages)
        /\ Line(d) = lane[d].backlog \o (Of(d, Fetched) \o Of(d, queue))
    BY LineParts DEF Rest
  <2>7. /\ ((<<>> \o Of(d, Fetched)) \o lane[d].backlog) \o Of(d, queue)
              = Of(d, Fetched) \o (lane[d].backlog \o Of(d, queue))
        /\ ((lane[d].backlog \o Of(d, Fetched)) \o <<>>) \o Of(d, queue)
              = lane[d].backlog \o (Of(d, Fetched) \o Of(d, queue))
    <3>. DEFINE x == lane[d].backlog
                y == Of(d, Fetched)
                z == Of(d, queue)
    <3>1. x \in Seq(Messages) /\ y \in Seq(Messages) /\ z \in Seq(Messages)
      BY <2>6
    <3>. HIDE DEF x, y, z
    <3>2. /\ ((<<>> \o y) \o x) \o z = y \o (x \o z)
          /\ ((x \o y) \o <<>>) \o z = x \o (y \o z)
          /\ (<<>> \o y) \o (x \o z) = y \o (x \o z)
          /\ (x \o y) \o (<<>> \o z) = x \o (y \o z)
      <4>1. Brackets(x, y, z)
        BY <3>1, Regroup
      <4>. QED BY <4>1 DEF Brackets
    <3>. QED BY <3>2 DEF x, y, z
  <2>8. Of(d, f) = Of(d, Fetched)
    BY DEF f
  <2>9. CASE d \in R
    <3>1. Of(d, a) = <<>> /\ Of(d, b) = lane[d].backlog
      BY <1>3, <2>9 DEF a, b
    <3>. QED BY <2>5, <2>7, <2>8, <2>9, <3>1
  <2>10. CASE d \notin R
    <3>1. Of(d, a) = lane[d].backlog /\ Of(d, b) = <<>>
      BY <1>3, <2>10 DEF a, b
    <3>. QED BY <2>5, <2>6, <2>7, <2>8, <2>10, <3>1
  <2>. QED BY <2>9, <2>10
<1>6. \A d \in Channels : Active(d)' = Active(d)
  BY AbandonFields DEF ManagedAs, Active
<1>7. GivenBack(R)
  BY <1>1, <1>5, <1>6 DEF GivenBack, ghosts
<1>. QED BY <1>1, <1>7, GivenBackMove, AbandonFields DEF Managing

\* None names no message.
LEMMA NoMessage == ASSUME NEW m \in Messages PROVE m # None
BY ChannelAssumption

-----------------------------------------------------------------------------
(* Each message stays in one place                                         *)

\* t has the members of s, in the order that p gives.
Permutes(p, s, t) ==
    /\ p \in [1..Len(t) -> 1..Len(s)] /\ \A i \in 1..Len(t) : t[i] = s[p[i]]
    /\ \A i, j \in 1..Len(t) : p[i] = p[j] => i = j

\* A line with the messages of another one in another order.
LEMMA PlacedPermuted ==
    ASSUME NEW c, NEW s, NEW a, NEW D, NEW P, PlacedAs(c, s, a, D, P),
           NEW t \in Seq(Messages), NEW p, Permutes(p, s, t)
    PROVE  PlacedAs(c, t, a, D, P)
<1>1. s \in Seq(Messages) /\ DOMAIN s = 1..Len(s) /\ DOMAIN t = 1..Len(t)
  BY LenProperties DEF PlacedAs
<1>2. ASSUME NEW i \in 1..Len(t), NEW j \in 1..Len(t), t[i] = t[j] PROVE i = j
  <2>1. p[i] \in DOMAIN s /\ p[j] \in DOMAIN s /\ s[p[i]] = s[p[j]]
    BY <1>1, <1>2 DEF Permutes
  <2>2. p[i] = p[j]
    BY <2>1 DEF PlacedAs, IsInjective
  <2>. QED BY <2>2 DEF Permutes
<1>3. \A i \in 1..Len(t) :
         t[i] \in P \ D /\ t[i] # a /\ ChannelOf[t[i]] = c
  BY <1>1 DEF PlacedAs, AllFor, Permutes
<1>. QED BY <1>1, <1>2, <1>3 DEF PlacedAs, AllFor, IsInjective

\* More is published.
LEMMA PlacedMore ==
    ASSUME NEW c, NEW s, NEW a, NEW D, NEW P, PlacedAs(c, s, a, D, P), NEW Q, P \subseteq Q
    PROVE  PlacedAs(c, s, a, D, Q)
BY DEF PlacedAs

\* A new message enters.
LEMMA PlacedEnter ==
    ASSUME NEW c, NEW s, NEW a, NEW D, NEW P, PlacedAs(c, s, a, D, P), D \subseteq P,
           NEW m \in Messages \ P, ChannelOf[m] = c
    PROVE  PlacedAs(c, Append(s, m), a, D, P \cup {m})
<1>. DEFINE t == Append(s, m)
            n == Len(s)
<1>1. /\ s \in Seq(Messages) /\ n \in Nat /\ DOMAIN s = 1..n
      /\ t \in Seq(Messages) /\ DOMAIN t = 1..(n + 1) /\ t[n + 1] = m
      /\ \A i \in 1..n : t[i] = s[i]
  BY AppendProperties, LenProperties DEF PlacedAs
<1>. HIDE DEF t, n
<1>2. \A i \in 1..(n + 1) : i \in 1..n \/ i = n + 1
  BY <1>1
<1>3. \A i \in 1..n : s[i] \in P \ D /\ s[i] # a /\ s[i] # m /\ ChannelOf[s[i]] = c
  BY <1>1 DEF PlacedAs, AllFor
<1>4. \A i \in DOMAIN t : t[i] \in (P \cup {m}) \ D /\ t[i] # a /\ ChannelOf[t[i]] = c
  <2>1. m # a
    BY <1>1, NoMessage DEF PlacedAs
  <2>. QED BY <1>1, <1>2, <1>3, <2>1
<1>5. IsInjective(t)
  <2>. SUFFICES ASSUME NEW i \in DOMAIN t, NEW j \in DOMAIN t, t[i] = t[j] PROVE i = j
    BY DEF IsInjective
  <2>1. i \in 1..n /\ j \in 1..n => s[i] = s[j]
    BY <1>1
  <2>2. i \in 1..n /\ j \in 1..n => i = j
    BY <1>1, <2>1 DEF PlacedAs, IsInjective
  <2>. QED BY <1>1, <1>2, <1>3, <2>2
<1>. QED BY <1>1, <1>4, <1>5 DEF PlacedAs, AllFor, t

\* Another channel's message is settled.
LEMMA PlacedOther ==
    ASSUME NEW c, NEW s, NEW a, NEW D, NEW P, PlacedAs(c, s, a, D, P),
           NEW E, \A m \in E : ChannelOf[m] # c
    PROVE  PlacedAs(c, s, a, D \cup E, P)
BY DEF PlacedAs, AllFor

\* The message in delivery is settled, and nothing else begins.
LEMMA PlacedEnd ==
    ASSUME NEW c, NEW s, NEW a, NEW D, NEW P, PlacedAs(c, s, a, D, P)
    PROVE  PlacedAs(c, s, None, D \cup ({a} \ {None}), P)
<1>1. \A i \in DOMAIN s : s[i] \in Messages
  BY ElementOfSeq, LenProperties DEF PlacedAs
<1>2. \A i \in DOMAIN s : s[i] # None
  BY <1>1, NoMessage
<1>. QED BY <1>2 DEF PlacedAs

\* The first message of the line begins.
LEMMA PlacedNext ==
    ASSUME NEW c, NEW s, NEW a, NEW D, NEW P, PlacedAs(c, s, a, D, P), s # <<>>
    PROVE  PlacedAs(c, Tail(s), Head(s), D \cup ({a} \ {None}), P)
<1>. DEFINE E == D \cup ({a} \ {None})
            t == Tail(s)
            n == Len(s)
<1>1. PlacedAs(c, s, None, E, P)
  BY PlacedEnd
<1>. HIDE DEF E
<1>2. s \in Seq(Messages) /\ n \in Nat /\ n # 0 /\ DOMAIN s = 1..n
  BY <1>1, LenProperties, EmptySeq DEF PlacedAs
<1>3. Head(s) = s[1] /\ t \in Seq(Messages) /\ Len(t) = n - 1 /\ \A i \in 1..(n - 1) : t[i] = s[i + 1]
  BY <1>2, HeadTailProperties
<1>. HIDE DEF t, n
<1>4. DOMAIN t = 1..(n - 1) /\ \A i \in 1..(n - 1) : i + 1 \in 1..n /\ i + 1 # 1
  BY <1>2, <1>3, LenProperties
<1>5. 1 \in 1..n /\ s[1] \in P \ E /\ ChannelOf[s[1]] = c
  BY <1>1, <1>2 DEF PlacedAs, AllFor
<1>6. \A i \in 1..(n - 1) : t[i] \in P \ E /\ t[i] # s[1] /\ ChannelOf[t[i]] = c
  BY <1>1, <1>2, <1>3, <1>4, <1>5 DEF PlacedAs, AllFor, IsInjective
<1>7. IsInjective(t)
  <2>. SUFFICES ASSUME NEW i \in DOMAIN t, NEW j \in DOMAIN t, t[i] = t[j] PROVE i = j
    BY DEF IsInjective
  <2>1. i + 1 \in DOMAIN s /\ j + 1 \in DOMAIN s /\ s[i + 1] = s[j + 1] /\ i \in Int /\ j \in Int
    BY <1>2, <1>3, <1>4
  <2>2. i + 1 = j + 1
    BY <1>1, <2>1 DEF PlacedAs, IsInjective
  <2>. QED BY <2>1, <2>2
<1>. QED BY <1>3, <1>4, <1>5, <1>6, <1>7 DEF PlacedAs, AllFor, E, t

\* u is a followed by b.
Joined(a, b, u) ==
    /\ u \in Seq(Messages) /\ Len(u) = Len(a) + Len(b)
    /\ \A i \in 1..(Len(a) + Len(b)) : u[i] = IF i <= Len(a) THEN a[i] ELSE b[i - Len(a)]

\* Concatenation joins.
LEMMA Joins ==
    ASSUME NEW a \in Seq(Messages), NEW b \in Seq(Messages)
    PROVE  Joined(a, b, a \o b)
<1>1. /\ a \o b \in Seq(Messages) /\ Len(a \o b) = Len(a) + Len(b)
      /\ \A i \in 1..(Len(a) + Len(b)) : (a \o b)[i] = IF i <= Len(a) THEN a[i] ELSE b[i - Len(a)]
  BY ConcatProperties
<1>. QED BY <1>1 DEF Joined

\* A message passes others.
LEMMA PlacedPass ==
    ASSUME NEW c, NEW b \in Seq(Messages), NEW m \in Messages, NEW r \in Seq(Messages),
           NEW a, NEW D, NEW P, PlacedAs(c, b \o (<<m>> \o r), a, D, P)
    PROVE  PlacedAs(c, <<m>> \o (b \o r), a, D, P)
<1>. DEFINE n == Len(b)
            k == Len(r)
            x == <<m>>
            y == x \o r
            z == b \o r
            s == b \o y
            t == x \o z
<1>1. x \in Seq(Messages) /\ Len(x) = 1 /\ n \in Nat /\ k \in Nat
  BY LenProperties
<1>. HIDE DEF x
<1>2. Joined(x, r, y) /\ Joined(b, r, z)
  BY <1>1, Joins
<1>3. y \in Seq(Messages) /\ z \in Seq(Messages)
  BY <1>2 DEF Joined
<1>. HIDE DEF y, z
<1>4. Joined(b, y, s) /\ Joined(x, z, t)
  BY <1>1, <1>3, Joins
<1>5. PlacedAs(c, s, a, D, P)
  BY DEF x, y
<1>. HIDE DEF s, t, n, k
<1>6. /\ Len(y) = 1 + k /\ Len(z) = n + k /\ Len(s) = n + (1 + k) /\ Len(t) = 1 + (n + k)
      /\ s \in Seq(Messages) /\ t \in Seq(Messages)
      /\ \A i \in 1..(1 + k) : y[i] = IF i <= 1 THEN x[i] ELSE r[i - 1]
      /\ \A i \in 1..(n + k) : z[i] = IF i <= n THEN b[i] ELSE r[i - n]
      /\ \A i \in 1..(n + (1 + k)) : s[i] = IF i <= n THEN b[i] ELSE y[i - n]
      /\ \A i \in 1..(1 + (n + k)) : t[i] = IF i <= 1 THEN x[i] ELSE z[i - 1]
  BY <1>1, <1>2, <1>4 DEF Joined, n, k
<1>. DEFINE N == 1 + (n + k)
            p == [i \in 1..N |-> IF i = 1 THEN n + 1 ELSE IF i <= n + 1 THEN i - 1 ELSE i]
<1>10. p \in [1..N -> 1..N] /\ \A i, j \in 1..N : p[i] = p[j] => i = j
  BY <1>1
<1>8. ASSUME NEW i \in 1..N PROVE t[i] = s[p[i]]
  <2>1. CASE i = 1
    <3>1. 1 \in 1..(1 + (n + k)) /\ 1 \in 1..(1 + k) /\ n + 1 \in 1..(n + (1 + k))
          /\ ~(n + 1 <= n) /\ (n + 1) - n = 1 /\ p[i] = n + 1
      BY <1>1, <2>1
    <3>2. t[1] = x[1] /\ s[n + 1] = y[1] /\ y[1] = x[1]
      BY <1>6, <3>1
    <3>. QED BY <2>1, <3>1, <3>2
  <2>2. CASE i # 1 /\ i <= n + 1
    <3>1. /\ i \in Int /\ i - 1 <= n /\ i - 1 \in 1..(n + k)
          /\ i - 1 \in 1..(n + (1 + k)) /\ ~(i <= 1) /\ p[i] = i - 1
      BY <1>1, <1>8, <2>2
    <3>2. t[i] = z[i - 1] /\ z[i - 1] = b[i - 1] /\ s[i - 1] = b[i - 1]
      BY <1>6, <1>8, <3>1
    <3>. QED BY <3>1, <3>2
  <2>3. CASE i # 1 /\ ~(i <= n + 1)
    <3>1. /\ i \in Int /\ ~(i - 1 <= n) /\ i - 1 \in 1..(n + k) /\ i \in 1..(n + (1 + k))
          /\ ~(i <= 1) /\ ~(i <= n) /\ p[i] = i /\ i - n \in 1..(1 + k) /\ ~(i - n <= 1)
          /\ (i - n) - 1 = (i - 1) - n
      BY <1>1, <1>8, <2>3
    <3>2. t[i] = z[i - 1] /\ z[i - 1] = r[(i - 1) - n]
      BY <1>6, <1>8, <3>1
    <3>3. s[i] = y[i - n] /\ y[i - n] = r[(i - n) - 1]
      BY <1>6, <3>1
    <3>. QED BY <3>1, <3>2, <3>3
  <2>. QED BY <2>1, <2>2, <2>3
<1>9. Len(t) = N /\ Len(s) = N
  BY <1>1, <1>6
<1>. HIDE DEF p, N
<1>11. Permutes(p, s, t)
  BY <1>8, <1>9, <1>10 DEF Permutes
<1>12. PlacedAs(c, t, a, D, P)
  BY <1>5, <1>6, <1>11, PlacedPermuted
<1>. QED BY <1>12 DEF t, x, z

\* The members of a sequence.
LEMMA Members ==
    ASSUME NEW s \in Seq(Messages)
    PROVE  /\ IsFiniteSet(ToSet(s)) /\ ToSet(s) \subseteq Messages
           /\ \A m \in Messages : ToSet(Append(s, m)) = ToSet(s) \cup {m}
<1>1. DOMAIN s = 1..Len(s) /\ Len(s) \in Nat /\ \A i \in 1..Len(s) : s[i] \in Messages
  BY LenProperties, ElementOfSeq
<1>2. IsFiniteSet(ToSet(s))
  <2>. DEFINE f == [i \in 1..Len(s) |-> s[i]]
  <2>1. f \in Surjection(1..Len(s), ToSet(s))
    BY <1>1 DEF Surjection, ToSet
  <2>2. IsFiniteSet(1..Len(s))
    BY <1>1, FS_Interval
  <2>. QED BY <2>1, <2>2, FS_Surjection
<1>3. ASSUME NEW m \in Messages PROVE ToSet(Append(s, m)) = ToSet(s) \cup {m}
  <2>. DEFINE t == Append(s, m)
  <2>1. /\ DOMAIN t = 1..(Len(s) + 1) /\ t[Len(s) + 1] = m
        /\ \A i \in 1..Len(s) : t[i] = s[i]
    BY AppendProperties, LenProperties
  <2>. HIDE DEF t
  <2>2. ToSet(t) = ToSet(s) \cup {m}
    BY <1>1, <2>1 DEF ToSet
  <2>. QED BY <2>2 DEF t
<1>. QED BY <1>1, <1>2, <1>3 DEF ToSet

\* Whatever a line does, each message stays in one place.
LEMMA PlacesKept ==
    ASSUME IInv, LineMove
    PROVE  /\ PlacesOK' /\ JoinCounts' /\ unfinished' \in Nat
           /\ published' \in Seq(Messages) /\ settled' \subseteq Messages
<1>. DEFINE P == ToSet(published)
            Goal == /\ \A d \in Channels :
                          PlacedAs(d, Line(d)', Active(d)', settled', ToSet(published'))
                    /\ settled' \subseteq ToSet(published')
                    /\ published' \in Seq(Messages)
                    /\ unfinished' = Cardinality(ToSet(published') \ settled')
<1>1. /\ published \in Seq(Messages) /\ settled \subseteq P
      /\ unfinished = Cardinality(P \ settled)
      /\ \A d \in Channels : PlacedAs(d, Line(d), Active(d), settled, P)
  BY DEF IInv, TypeOK, PlacesOK, JoinCounts
<1>2. /\ IsFiniteSet(P) /\ P \subseteq Messages
      /\ \A m \in Messages : ToSet(Append(published, m)) = P \cup {m}
  BY <1>1, Members
<1>. HIDE DEF P
<1>3. IsFiniteSet(P \ settled) /\ Cardinality(P \ settled) \in Nat
  BY <1>2, FS_Subset, FS_CardinalityType
<1>4. ASSUME Resting PROVE Goal
  BY <1>1, <1>4 DEF Resting, P
<1>5. ASSUME NEW m \in Messages, Entered(m) PROVE Goal
  <2>1. m \notin P /\ published' = Append(published, m) /\ settled' = settled /\ unfinished' = unfinished + 1
    BY <1>5 DEF Entered, P
  <2>2. published' \in Seq(Messages) /\ ToSet(published') = P \cup {m}
    BY <1>1, <1>2, <2>1, AppendProperties
  <2>3. ASSUME NEW d \in Channels
        PROVE  PlacedAs(d, Line(d)', Active(d)', settled', ToSet(published'))
    <3>1. Line(d)' = (IF d = ChannelOf[m] THEN Append(Line(d), m) ELSE Line(d)) /\ Active(d)' = Active(d)
      BY <1>5 DEF Entered
    <3>2. CASE d = ChannelOf[m]
      <4>1. PlacedAs(d, Append(Line(d), m), Active(d), settled, P \cup {m})
        BY <1>1, <2>1, <3>2, PlacedEnter
      <4>. QED BY <2>1, <2>2, <3>1, <3>2, <4>1
    <3>3. CASE d # ChannelOf[m]
      <4>1. PlacedAs(d, Line(d), Active(d), settled, P \cup {m})
        BY <1>1, PlacedMore
      <4>. QED BY <2>1, <2>2, <3>1, <3>3, <4>1
    <3>. QED BY <3>2, <3>3
  <2>4. unfinished' = Cardinality((P \cup {m}) \ settled)
    <3>1. (P \cup {m}) \ settled = (P \ settled) \cup {m} /\ m \notin P \ settled
      BY <1>1, <2>1
    <3>. QED BY <1>1, <1>3, <2>1, <3>1, FS_AddElement
  <2>. QED BY <1>1, <2>1, <2>2, <2>3, <2>4
<1>6. ASSUME NEW c \in Channels, Advanced(c) PROVE Goal
  <2>. DEFINE E == {Active(c)} \ {None}
  <2>1. /\ published' = published /\ settled' = settled \cup E
        /\ unfinished' = IF Active(c) = None THEN unfinished ELSE unfinished - 1
        /\ PlacedAs(c, Line(c), Active(c), settled, P)
    BY <1>1, <1>6 DEF Advanced
  <2>2. E \subseteq P \ settled /\ \A m \in E : ChannelOf[m] = c
    BY <2>1 DEF PlacedAs
  <2>3. PlacedAs(c, Line(c)', Active(c)', settled \cup E, P)
    <3>1. CASE Line(c) # <<>> /\ Active(c)' = Head(Line(c)) /\ Line(c)' = Tail(Line(c))
      <4>1. PlacedAs(c, Tail(Line(c)), Head(Line(c)), settled \cup E, P)
        BY <2>1, <3>1, PlacedNext
      <4>. QED BY <3>1, <4>1
    <3>2. CASE Active(c)' = None /\ Line(c)' = Line(c)
      <4>1. PlacedAs(c, Line(c), None, settled \cup E, P)
        BY <2>1, PlacedEnd
      <4>. QED BY <3>2, <4>1
    <3>. QED BY <1>6, <3>1, <3>2 DEF Advanced
  <2>4. ASSUME NEW d \in Channels \ {c} PROVE PlacedAs(d, Line(d)', Active(d)', settled \cup E, P)
    <3>1. Line(d)' = Line(d) /\ Active(d)' = Active(d)
      BY <1>6 DEF Advanced, SameBut
    <3>2. \A m \in E : ChannelOf[m] # d
      BY <2>2
    <3>3. PlacedAs(d, Line(d), Active(d), settled, P)
      BY <1>1
    <3>. HIDE DEF E
    <3>4. PlacedAs(d, Line(d), Active(d), settled \cup E, P)
      BY <3>2, <3>3, PlacedOther
    <3>. QED BY <3>1, <3>4
  <2>5. unfinished' = Cardinality(P \ (settled \cup E))
    <3>1. CASE Active(c) = None
      <4>1. P \ (settled \cup E) = P \ settled
        BY <3>1
      <4>. QED BY <1>1, <2>1, <3>1, <4>1
    <3>2. CASE Active(c) # None
      <4>1. P \ (settled \cup E) = (P \ settled) \ {Active(c)} /\ Active(c) \in P \ settled
        BY <2>2, <3>2
      <4>. QED BY <1>1, <1>3, <2>1, <3>2, <4>1, FS_RemoveElement
    <3>. QED BY <3>1, <3>2
  <2>. QED
    <3>1. \A d \in Channels : PlacedAs(d, Line(d)', Active(d)', settled \cup E, P)
      BY <2>3, <2>4
    <3>. QED BY <1>1, <2>1, <2>2, <2>5, <3>1 DEF P
<1>7. ASSUME NEW c \in Channels, Overtaken(c) PROVE Goal
  <2>1. /\ UNCHANGED <<published, settled, unfinished>> /\ Active(c)' = Active(c)
        /\ \A d \in Channels \ {c} : Line(d)' = Line(d) /\ Active(d)' = Active(d)
    BY <1>7 DEF Overtaken, SameBut
  <2>2. PlacedAs(c, Line(c)', Active(c), settled, P)
    <3>1. PICK b \in Seq(Messages), r \in Seq(Messages), m \in Messages :
             Line(c) = b \o (<<m>> \o r) /\ Line(c)' = <<m>> \o (b \o r)
      BY <1>7 DEF Overtaken
    <3>2. PlacedAs(c, b \o (<<m>> \o r), Active(c), settled, P)
      BY <1>1, <3>1
    <3>3. PlacedAs(c, <<m>> \o (b \o r), Active(c), settled, P)
      BY <3>2, PlacedPass
    <3>. QED BY <3>1, <3>3
  <2>. QED BY <1>1, <2>1, <2>2 DEF P
<1>8. Goal
  BY <1>4, <1>5, <1>6, <1>7, <1>1 DEF LineMove
<1>9. unfinished' \in Nat
  BY <1>8, Members, FS_Subset, FS_CardinalityType
<1>10. settled' \subseteq Messages
  BY <1>8, Members
<1>. QED BY <1>8, <1>9, <1>10 DEF PlacesOK, JoinCounts

-----------------------------------------------------------------------------
(* The invariant after a step of a lane's task                             *)

\* What the invariant says of lanes, the lock and the attempts.
Inner ==
    /\ \A ch \in Channels : LaneOK(ch)
    /\ TableOK /\ LockOK /\ AttemptsOK /\ Untried /\ CalledOK /\ WithdrawnNeverSent

\* A busy lane delivers a message of its channel.
LEMMA BusyMessage ==
    ASSUME IInv, NEW c \in Channels, lane[c].phase \in BusyPhases
    PROVE  /\ lane[c].msg \in Messages /\ ChannelOf[lane[c].msg] = c /\ lane[c].msg = Active(c)
           /\ lane[c] # NoLane
BY LaneFacts, NoLaneFields DEF LaneOK, Active, BusyPhases, CallPhases

\* Only a busy lane's attempts matter.
LEMMA IdleAttempts ==
    ASSUME NEW l, l.phase \notin BusyPhases, NEW done PROVE Attempts(l, done)
BY DEF Attempts, BusyPhases, CallPhases

\* The first message of a lane's backlog was never tried.
LEMMA HeadUntried ==
    ASSUME IInv, NEW c \in Channels, lane[c].backlog # <<>>
    PROVE  LET m == Head(lane[c].backlog) IN
           /\ m \in Messages /\ ChannelOf[m] = c /\ AllFor(c, Tail(lane[c].backlog))
           /\ m \notin settled /\ m # Active(c) /\ final[m] = {} /\ m \notin started
<1>. DEFINE m == Head(lane[c].backlog)
            b == lane[c].backlog
<1>1. b \in Seq(Messages) /\ AllFor(c, b) /\ b # <<>>
  BY LaneFacts, RecordFields DEF LaneOK
<1>. HIDE DEF b
<1>2. /\ Len(b) \in Nat /\ Len(b) # 0 /\ DOMAIN b = 1..Len(b) /\ Head(b) = b[1] /\ Tail(b) \in Seq(Messages)
      /\ Len(Tail(b)) = Len(b) - 1 /\ DOMAIN Tail(b) = 1..Len(Tail(b))
      /\ \A i \in 1..(Len(b) - 1) : Tail(b)[i] = b[i + 1]
  BY <1>1, EmptySeq, LenProperties, HeadTailProperties
<1>3. /\ \A i \in 1..(Len(b) - 1) : i + 1 \in DOMAIN b
      /\ 1 \in DOMAIN b
  BY <1>2
<1>4. Head(b) \in Messages /\ ChannelOf[Head(b)] = c /\ AllFor(c, Tail(b))
  BY <1>1, <1>2, <1>3, ElementOfSeq DEF AllFor
<1>5. PlacedAs(c, Tail(Line(c)), m, settled \cup ({Active(c)} \ {None}), ToSet(published))
  <2>1. PlacedAs(c, Line(c), Active(c), settled, ToSet(published)) /\ Line(c) # <<>> /\ Head(Line(c)) = m
    BY LineHead DEF IInv, PlacesOK
  <2>2. PlacedAs(c, Tail(Line(c)), Head(Line(c)), settled \cup ({Active(c)} \ {None}), ToSet(published))
    BY <2>1, PlacedNext
  <2>. QED BY <2>1, <2>2
<1>6. m \in Messages /\ ChannelOf[m] = c /\ AllFor(c, Tail(lane[c].backlog))
  BY <1>4 DEF b
<1>. HIDE DEF m
<1>7. m # None
  BY <1>6, NoMessage
<1>8. m \notin settled /\ m # Active(c)
  BY <1>5, <1>7 DEF PlacedAs
<1>. QED BY <1>6, <1>8 DEF IInv, Untried, m

\* The lane goes on with its message.
LEMMA KeepsInner ==
    ASSUME IInv, NEW c \in Channels, NEW q, Keeps(c, q)
    PROVE  Inner'
<1>. DEFINE l == lane[c]
<1>1. /\ l.phase \in BusyPhases /\ l.msg \in Messages /\ ChannelOf[l.msg] = c
      /\ l.msg = Active(c) /\ l # NoLane
  BY BusyMessage DEF Keeps
<1>2. lane'[c] = q /\ \A d \in Channels \ {c} : lane'[d] = lane[d]
  BY LaneFacts DEF Keeps
<1>3. /\ UNCHANGED <<fetched, abandoned, loop, host, outcomes, settled>>
      /\ q.msg = l.msg /\ q.backlog = l.backlog /\ q.phase \in BusyPhases \ {"lock"}
      /\ (q.cancelled => l.cancelled)
  BY DEF Keeps
<1>4. PICK D \in SUBSET Transports : final' = [final EXCEPT ![l.msg] = D] /\ Attempts(q, D)
  BY DEF Keeps
<1>5. ASSUME NEW m \in Messages PROVE final'[m] = IF m = l.msg THEN D ELSE final[m]
  BY <1>4 DEF IInv, TypeOK
<1>6. ASSUME NEW d \in Channels PROVE LaneOK(d)'
  <2>1. CASE d = c
    <3>1. q.phase \in RetryPhases => q.msg \notin Acknowledged
      BY DEF Keeps
    <3>2. q.phase \notin {"none", "ended", "cancelled"}
      BY <1>3 DEF BusyPhases, CallPhases
    <3>. QED BY <1>1, <1>2, <1>3, <2>1, <3>1, <3>2, LaneFacts DEF LaneOK
  <2>2. CASE d # c
    <3>1. LaneOK(d) /\ lane'[d] = lane[d] /\ abandoned' = abandoned
      BY <1>2, <1>3, <2>2, LaneFacts
    <3>. QED BY <3>1 DEF LaneOK
  <2>. QED BY <2>1, <2>2
<1>7. TableOK'
  <2>1. TableOK /\ abandoned \subseteq Channels /\ UNCHANGED <<abandoned, dispatcher, fetched>>
    BY <1>3 DEF IInv, TypeOK, loop
  <2>2. c \in abandoned => q.phase \in BusyPhases /\ q.backlog = <<>> /\ q.phase # "created"
    BY <1>3, <2>1 DEF TableOK, BusyPhases, CallPhases
  <2>3. dispatcher # "off" /\ (dispatcher = "aborting" => c \in abandoned)
    BY <1>1, <2>1 DEF TableOK
  <2>4. \A d \in abandoned : lane'[d] = lane[d] \/ d = c
    BY <1>2, <2>1
  <2>. QED BY <1>2, <2>1, <2>2, <2>3, <2>4 DEF TableOK
<1>8. LockOK'
  <2>1. /\ LockOK /\ UNCHANGED <<subscribers, handovers>>
        /\ lock' = lock \/ (lock \in {None, c} /\ lock' \in {None, c})
    BY DEF IInv, Keeps, host
  <2>2. ASSUME NEW d \in Channels, lane'[d].phase \in CallPhases
        PROVE  /\ lock' = d
               /\ lane'[d].transport \in subscribers'[d] \ lane'[d].todo
               /\ lane'[d].todo \subseteq subscribers'[d]
    <3>1. CASE d = c
      BY <1>2, <2>1, <2>2, <3>1 DEF Keeps
    <3>2. CASE d # c
      BY <1>2, <2>1, <2>2, <3>2, ChannelAssumption DEF LockOK
    <3>. QED BY <3>1, <3>2
  <2>3. lock' = Host => handovers' < MaxHandovers
    BY <2>1, ChannelAssumption DEF LockOK
  <2>. QED BY <2>2, <2>3 DEF LockOK
<1>9. AttemptsOK'
  <2>. SUFFICES ASSUME NEW d \in Channels PROVE Attempts(lane'[d], final'[lane'[d].msg])
    BY DEF AttemptsOK
  <2>1. CASE d = c
    BY <1>1, <1>2, <1>3, <1>4, <1>5, <2>1
  <2>2. CASE d # c /\ lane[d].phase \notin BusyPhases
    BY <1>2, <2>2, IdleAttempts
  <2>3. CASE d # c /\ lane[d].phase \in BusyPhases
    <3>1. lane[d].msg \in Messages /\ lane[d].msg # l.msg
      BY <1>1, <2>3, BusyMessage
    <3>. QED BY <1>2, <1>5, <2>3, <3>1, LaneFacts
  <2>. QED BY <2>1, <2>2, <2>3
<1>10. \A d \in Channels : Active(d)' = Active(d)
  BY <1>2, <1>3 DEF Active
<1>11. \A m : m \in started' => m \in started \/ m = l.msg
  BY DEF Keeps
<1>12. Untried'
  <2>1. Untried /\ \A m \in Messages : ChannelOf[m] \in Channels
    BY ChannelAssumption DEF IInv
  <2>. QED BY <1>1, <1>3, <1>5, <1>10, <1>11, <2>1 DEF Untried
<1>13. CalledOK'
  <2>. SUFFICES ASSUME NEW m \in Acknowledged, m \in started' PROVE Calling(m)' \/ m \in settled'
    BY DEF CalledOK
  <2>1. CASE m = l.msg
    <3>1. q.phase = "call"
      BY <1>3, <2>1 DEF Keeps, BusyPhases, CallPhases, RetryPhases
    <3>. QED BY <1>2, <1>3, <2>1, <3>1 DEF Calling
  <2>2. CASE m # l.msg
    <3>1. Calling(m) \/ m \in settled
      BY <1>11, <2>2 DEF IInv, CalledOK
    <3>. QED BY <1>2, <1>3, <2>2, <3>1 DEF Calling
  <2>. QED BY <2>1, <2>2
<1>14. WithdrawnNeverSent'
  BY <1>3 DEF IInv, WithdrawnNeverSent, Keeps, outcomes
<1>. QED BY <1>6, <1>7, <1>8, <1>9, <1>12, <1>13, <1>14 DEF Inner

\* The lane is done with its message.
LEMMA LeavesInner ==
    ASSUME IInv, NEW c \in Channels, NEW q, Leaves(c, q)
    PROVE  Inner'
<1>. DEFINE l == lane[c]
<1>1. /\ l.phase \in BusyPhases /\ l.msg \in Messages /\ ChannelOf[l.msg] = c
      /\ l.msg = Active(c) /\ l # NoLane
  BY BusyMessage DEF Leaves
<1>2. lane'[c] = q /\ \A d \in Channels \ {c} : lane'[d] = lane[d]
  BY LaneFacts DEF Leaves
<1>3. /\ UNCHANGED <<fetched, loop, host, revoked, started>> /\ ~q.cancelled
      /\ abandoned' = abandoned \ {c} /\ settled' = settled \cup {l.msg}
      /\ c \in abandoned => q = NoLane
  BY DEF Leaves
<1>4. PICK D \in SUBSET Transports : final' = [final EXCEPT ![l.msg] = D]
  BY DEF Leaves
<1>5. ASSUME NEW m \in Messages PROVE final'[m] = IF m = l.msg THEN D ELSE final[m]
  BY <1>4 DEF IInv, TypeOK
<1>6. \/ /\ q.phase \in DonePhases \cup {"none"} /\ q.msg = None /\ AllFor(c, q.backlog)
         /\ q.phase = "none" => q = NoLane
         /\ q.phase = "ended" => q.backlog = <<>>
         /\ q.phase = "cancelled" => CallbackCancels
      \/ /\ q.phase = "lock" /\ q.msg \in Messages /\ ChannelOf[q.msg] = c /\ AllFor(c, q.backlog)
         /\ q.msg # l.msg /\ q.failed = {} /\ final[q.msg] = {}
  <2>1. CASE q.phase \in DonePhases \cup {"none"} /\ q.msg = None /\ q.backlog = l.backlog
    BY <2>1, LaneFacts DEF Leaves, LaneOK, DonePhases
  <2>2. CASE /\ q.phase = "lock" /\ l.backlog # <<>> /\ q.msg = Head(l.backlog)
             /\ q.backlog = Tail(l.backlog) /\ q.failed = {}
    BY <1>1, <2>2, HeadUntried
  <2>. QED BY <2>1, <2>2 DEF Leaves
<1>7. ASSUME NEW d \in Channels PROVE LaneOK(d)'
  <2>1. CASE d = c
    BY <1>2, <1>3, <1>6, <2>1 DEF LaneOK, BusyPhases, CallPhases, DonePhases, RetryPhases
  <2>2. CASE d # c
    <3>1. LaneOK(d) /\ lane'[d] = lane[d] /\ (d \in abandoned => d \in abandoned')
      BY <1>2, <1>3, <2>2, LaneFacts
    <3>. QED BY <3>1 DEF LaneOK
  <2>. QED BY <2>1, <2>2
<1>8. TableOK'
  <2>1. TableOK /\ abandoned \subseteq Channels /\ UNCHANGED <<dispatcher, fetched>>
    BY <1>3 DEF IInv, TypeOK, loop
  <2>2. dispatcher # "off" /\ (dispatcher = "aborting" => c \in abandoned)
    BY <1>1, <2>1 DEF TableOK
  <2>3. \A d \in abandoned' : lane'[d] = lane[d] /\ d \in abandoned
    BY <1>2, <1>3, <2>1
  <2>4. dispatcher = "aborting" => \A d \in Channels \ abandoned' : lane'[d] = NoLane
    BY <1>2, <1>3, <2>1, <2>2 DEF TableOK
  <2>. QED BY <1>3, <2>1, <2>2, <2>3, <2>4 DEF TableOK
<1>9. LockOK'
  <2>1. /\ LockOK /\ UNCHANGED <<subscribers, handovers>>
        /\ lock' = lock \/ (lock \in {None, c} /\ lock' = None)
    BY DEF IInv, Leaves, host
  <2>2. ASSUME NEW d \in Channels, lane'[d].phase \in CallPhases
        PROVE  /\ lock' = d
               /\ lane'[d].transport \in subscribers'[d] \ lane'[d].todo
               /\ lane'[d].todo \subseteq subscribers'[d]
    <3>1. d # c
      BY <1>2, <1>6, <2>2 DEF CallPhases, DonePhases
    <3>. QED BY <1>2, <2>1, <2>2, <3>1, ChannelAssumption DEF LockOK
  <2>3. lock' = Host => handovers' < MaxHandovers
    BY <2>1, ChannelAssumption DEF LockOK
  <2>. QED BY <2>2, <2>3 DEF LockOK
<1>10. AttemptsOK'
  <2>. SUFFICES ASSUME NEW d \in Channels PROVE Attempts(lane'[d], final'[lane'[d].msg])
    BY DEF AttemptsOK
  <2>1. CASE d = c /\ q.phase # "lock"
    <3>1. q.phase \notin BusyPhases
      BY <1>6, <2>1 DEF BusyPhases, CallPhases, DonePhases
    <3>. QED BY <1>2, <2>1, <3>1, IdleAttempts
  <2>2. CASE d = c /\ q.phase = "lock"
    <3>1. final'[q.msg] = {} /\ q.failed = {}
      BY <1>5, <1>6, <2>2 DEF DonePhases
    <3>. QED BY <1>2, <2>2, <3>1 DEF Attempts
  <2>3. CASE d # c /\ lane[d].phase \notin BusyPhases
    BY <1>2, <2>3, IdleAttempts
  <2>4. CASE d # c /\ lane[d].phase \in BusyPhases
    <3>1. lane[d].msg \in Messages /\ lane[d].msg # l.msg
      BY <1>1, <2>4, BusyMessage
    <3>. QED BY <1>2, <1>5, <2>4, <3>1, LaneFacts
  <2>. QED BY <2>1, <2>2, <2>3, <2>4
<1>11. Untried'
  <2>. SUFFICES ASSUME NEW m \in Messages \ settled', m # Active(ChannelOf[m])'
                PROVE  final'[m] = {} /\ m \notin started'
    BY DEF Untried
  <2>1. Untried /\ ChannelOf[m] \in Channels /\ m \notin settled /\ m # l.msg
    BY <1>3, ChannelAssumption DEF IInv
  <2>2. m # Active(ChannelOf[m])
    <3>1. CASE ChannelOf[m] = c
      BY <1>1, <2>1, <3>1
    <3>2. CASE ChannelOf[m] # c
      <4>1. lane'[ChannelOf[m]] = lane[ChannelOf[m]]
        BY <1>2, <2>1, <3>2
      <4>2. m # lane'[ChannelOf[m]].msg
        BY DEF Active
      <4>. QED BY <4>1, <4>2 DEF Active
    <3>. QED BY <3>1, <3>2
  <2>. QED BY <1>3, <1>5, <2>1, <2>2 DEF Untried
<1>12. CalledOK'
  <2>. SUFFICES ASSUME NEW m \in Acknowledged, m \in started' PROVE Calling(m)' \/ m \in settled'
    BY DEF CalledOK
  <2>1. Calling(m) \/ m \in settled
    BY <1>3 DEF IInv, CalledOK
  <2>2. CASE m = l.msg \/ m \in settled
    BY <1>3, <2>2
  <2>3. CASE m # l.msg /\ Calling(m)
    BY <1>2, <2>3 DEF Calling
  <2>. QED BY <2>1, <2>2, <2>3
<1>13. WithdrawnNeverSent'
  BY <1>3 DEF IInv, WithdrawnNeverSent, Leaves
<1>. QED BY <1>7, <1>8, <1>9, <1>10, <1>11, <1>12, <1>13 DEF Inner

\* A lane that was idle changes, and nothing else.
LEMMA IdleInner ==
    ASSUME IInv, NEW c \in Channels, lane[c].phase = "created", NEW q,
           lane' = [lane EXCEPT ![c] = q], abandoned' = abandoned \ {c},
           c \in abandoned => q = NoLane, ~q.cancelled,
           \/ q = NoLane /\ c \in abandoned
           \/ q.phase = "ended" /\ q.msg = None /\ q.backlog = <<>>
           \/ /\ q.phase = "lock" /\ lane[c].backlog # <<>> /\ q.failed = {}
              /\ q.msg = Head(lane[c].backlog) /\ q.backlog = Tail(lane[c].backlog),
           UNCHANGED <<bus, loop, lock, host, outcomes, published, ghosts>>
    PROVE  Inner'
<1>1. lane'[c] = q /\ (\A d \in Channels \ {c} : lane'[d] = lane[d])
  BY LaneFacts
<1>2. UNCHANGED <<fetched, dispatcher, lock, subscribers, handovers, answer, settled, started, final>>
  BY DEF bus, loop, host, outcomes, ghosts
<1>3. /\ lane[c].phase \notin BusyPhases /\ lane[c] # NoLane /\ Active(c) = None
      /\ lane[c].phase # "call"
  BY LaneFacts, NoLaneFields DEF LaneOK, Active, BusyPhases, CallPhases
<1>4. \/ q.phase \in {"none", "ended"} /\ q.msg = None /\ q.backlog = <<>> /\ (q.phase = "none" => q = NoLane)
      \/ /\ q.phase = "lock" /\ q.msg \in Messages /\ ChannelOf[q.msg] = c /\ AllFor(c, q.backlog)
         /\ q.failed = {} /\ final[q.msg] = {}
  BY HeadUntried, NoLaneFields
<1>5. AllFor(c, <<>>)
  BY EmptySeq DEF AllFor
<1>6. ASSUME NEW d \in Channels PROVE LaneOK(d)'
  <2>1. CASE d = c
    BY <1>1, <1>4, <1>5, <2>1 DEF LaneOK, BusyPhases, CallPhases, RetryPhases
  <2>2. CASE d # c
    <3>1. LaneOK(d) /\ lane'[d] = lane[d] /\ (d \in abandoned => d \in abandoned')
      BY <1>1, <2>2, LaneFacts
    <3>. QED BY <3>1 DEF LaneOK
  <2>. QED BY <2>1, <2>2
<1>7. TableOK'
  <2>1. TableOK /\ abandoned \subseteq Channels
    BY DEF IInv, TypeOK
  <2>2. dispatcher # "off" /\ (dispatcher = "aborting" => c \in abandoned)
    BY <1>3, <2>1 DEF TableOK
  <2>3. \A d \in abandoned' : lane'[d] = lane[d] /\ d \in abandoned
    BY <1>1, <2>1
  <2>4. dispatcher = "aborting" => \A d \in Channels \ abandoned' : lane'[d] = NoLane
    BY <1>1, <2>1, <2>2 DEF TableOK
  <2>. QED BY <1>1, <1>2, <2>1, <2>2, <2>3, <2>4 DEF TableOK
<1>8. LockOK'
  <2>1. q.phase \notin CallPhases
    BY <1>4 DEF CallPhases
  <2>. QED BY <1>1, <1>2, <2>1 DEF IInv, LockOK
<1>9. AttemptsOK'
  <2>. SUFFICES ASSUME NEW d \in Channels PROVE Attempts(lane'[d], final[lane'[d].msg])
    BY <1>2 DEF AttemptsOK
  <2>1. CASE d = c /\ q.phase # "lock"
    <3>1. q.phase \notin BusyPhases
      BY <1>4, <2>1 DEF BusyPhases, CallPhases
    <3>. QED BY <1>1, <2>1, <3>1, IdleAttempts
  <2>2. CASE d = c /\ q.phase = "lock"
    BY <1>1, <1>4, <2>2 DEF Attempts
  <2>3. CASE d # c
    BY <1>1, <2>3, LaneFacts
  <2>. QED BY <2>1, <2>2, <2>3
<1>10. Untried'
  <2>. SUFFICES ASSUME NEW m \in Messages \ settled, m # Active(ChannelOf[m])'
                PROVE  final[m] = {} /\ m \notin started
    BY <1>2 DEF Untried
  <2>1. Untried /\ ChannelOf[m] \in Channels /\ m # None
    BY ChannelAssumption DEF IInv
  <2>2. m # Active(ChannelOf[m])
    <3>1. CASE ChannelOf[m] = c
      BY <1>3, <2>1, <3>1
    <3>2. CASE ChannelOf[m] # c
      <4>1. lane'[ChannelOf[m]] = lane[ChannelOf[m]]
        BY <1>1, <2>1, <3>2
      <4>2. m # lane'[ChannelOf[m]].msg
        BY DEF Active
      <4>. QED BY <4>1, <4>2 DEF Active
    <3>. QED BY <3>1, <3>2
  <2>. QED BY <2>1, <2>2 DEF Untried
<1>11. CalledOK'
  BY <1>1, <1>2, <1>3 DEF IInv, CalledOK, Calling
<1>12. WithdrawnNeverSent'
  BY <1>2 DEF IInv, WithdrawnNeverSent
<1>. QED BY <1>6, <1>7, <1>8, <1>9, <1>10, <1>11, <1>12 DEF Inner

\* A step of a lane's task keeps the invariant.
LEMMA WorksInvariant ==
    ASSUME IInv, NEW c \in Channels, Works(c)
    PROVE  Inner' /\ TypeOK'
<1>1. /\ published' \in Seq(Messages) /\ unfinished' \in Nat /\ settled' \subseteq Messages
  BY WorksMove, PlacesKept
<1>2. /\ TypeOK /\ lane \in [Channels -> LaneRecords]
  BY LaneFacts DEF IInv
<1>3. ASSUME NEW q, Keeps(c, q) PROVE Inner' /\ TypeOK'
  <2>1. /\ lane' \in [Channels -> LaneRecords] /\ lane[c].msg \in Messages
        /\ UNCHANGED <<queue, fetched, abandoned, loop, host, outcomes>>
    BY <1>2, <1>3, BusyMessage DEF Keeps
  <2>2. lock' \in Channels \cup {Host, None}
    BY <1>2, <1>3 DEF Keeps, TypeOK
  <2>3. started' \subseteq Messages
    BY <1>2, <1>3, <2>1 DEF Keeps, TypeOK
  <2>4. final' \in [Messages -> SUBSET Transports]
    BY <1>2, <1>3, <2>1 DEF Keeps, TypeOK
  <2>. QED BY <1>1, <1>2, <1>3, <2>1, <2>2, <2>3, <2>4, KeepsInner DEF TypeOK, LaneRecords, loop, host, outcomes
<1>4. ASSUME NEW q, Leaves(c, q) PROVE Inner' /\ TypeOK'
  <2>1. /\ lane' \in [Channels -> LaneRecords] /\ lane[c].msg \in Messages
        /\ UNCHANGED <<queue, fetched, loop, host, revoked, started>>
        /\ abandoned' \subseteq abandoned /\ answer' \in [Acknowledged -> Answers]
    BY <1>2, <1>4, BusyMessage DEF Leaves
  <2>2. lock' \in Channels \cup {Host, None}
    BY <1>2, <1>4 DEF Leaves, TypeOK
  <2>3. final' \in [Messages -> SUBSET Transports]
    BY <1>2, <1>4, <2>1 DEF Leaves, TypeOK
  <2>. QED BY <1>1, <1>2, <1>4, <2>1, <2>2, <2>3, LeavesInner DEF TypeOK, LaneRecords, loop, host
<1>5. ASSUME NEW q \in LaneRecords, lane' = [lane EXCEPT ![c] = q], abandoned' \subseteq abandoned,
             UNCHANGED <<bus, loop, lock, host, outcomes, published, ghosts>>
      PROVE  TypeOK'
  <2>1. lane' \in [Channels -> LaneRecords]
    BY <1>2, <1>5
  <2>. QED BY <1>2, <1>5, <2>1 DEF TypeOK, LaneRecords, bus, loop, host, outcomes, ghosts
<1>6. ASSUME NEW q, Begins(c, q) PROVE Inner' /\ TypeOK'
  <2>1. /\ lane[c].phase = "created" /\ c \notin abandoned /\ q \in LaneRecords
        /\ lane' = [lane EXCEPT ![c] = q] /\ ~q.cancelled /\ abandoned' = abandoned
        /\ UNCHANGED <<bus, loop, lock, host, outcomes, published, ghosts>>
        /\ \/ q.phase = "ended" /\ q.msg = None /\ q.backlog = <<>>
           \/ /\ q.phase = "lock" /\ lane[c].backlog # <<>> /\ q.failed = {}
              /\ q.msg = Head(lane[c].backlog) /\ q.backlog = Tail(lane[c].backlog)
    BY <1>6 DEF Begins
  <2>2. abandoned' = abandoned \ {c}
    BY <2>1
  <2>. QED BY <1>5, <2>1, <2>2, IdleInner
<1>7. ASSUME Vanishes(c) PROVE Inner' /\ TypeOK'
  <2>1. /\ lane[c].phase = "created" /\ c \in abandoned
        /\ lane' = [lane EXCEPT ![c] = NoLane] /\ abandoned' = abandoned \ {c}
        /\ UNCHANGED <<bus, loop, lock, host, outcomes, published, ghosts>>
    BY <1>7 DEF Vanishes
  <2>. QED BY <1>5, <2>1, NoLaneFields, IdleInner
<1>. QED BY <1>3, <1>4, <1>6, <1>7 DEF Works

-----------------------------------------------------------------------------
(* The invariant after a step of the dispatcher                            *)

\* Managed lanes keep what the invariant says of them.
LEMMA ManagedInner ==
    ASSUME IInv, Managing, TableOK'
    PROVE  Inner'
<1>1. UNCHANGED <<lock, subscribers, handovers, answer, settled, started, final>>
  BY DEF Managing, host, outcomes, ghosts
<1>2. ASSUME NEW d \in Channels
      PROVE  /\ lane'[d].msg = lane[d].msg
             /\ lane'[d].phase \in BusyPhases =>
                   /\ lane'[d].phase = lane[d].phase
                   /\ lane'[d].transport = lane[d].transport /\ lane'[d].todo = lane[d].todo
                   /\ lane'[d].attempted = lane[d].attempted /\ lane'[d].failed = lane[d].failed
             /\ lane[d].phase \in BusyPhases => lane'[d].phase = lane[d].phase
    <2>1. "created" \notin BusyPhases /\ NoLane.phase \notin BusyPhases
      BY NoLaneFields DEF BusyPhases, CallPhases
    <2>. QED BY <2>1 DEF Managing, ManagedAs
<1>3. ASSUME NEW d \in Channels PROVE LaneOK(d)'
  <2>1. /\ lane'[d].phase = "none" => lane'[d] = NoLane
        /\ lane'[d].phase \notin DonePhases
        /\ AllFor(d, lane'[d].backlog)
        /\ lane'[d].cancelled => d \in abandoned'
    BY NoLaneFields DEF Managing, ManagedAs, DonePhases
  <2>2. lane'[d].phase \notin BusyPhases => lane[d].phase \notin BusyPhases
    BY <1>2
  <2>3. lane'[d].phase \in RetryPhases => lane[d].phase \in RetryPhases
    BY <1>2 DEF RetryPhases, BusyPhases, CallPhases
  <2>. QED BY <1>2, <2>1, <2>2, <2>3, LaneFacts DEF LaneOK, DonePhases
<1>4. LockOK'
  <2>1. LockOK /\ \A d \in Channels : lane'[d].phase \in CallPhases => lane'[d].phase \in BusyPhases
    BY DEF IInv, BusyPhases
  <2>. QED BY <1>1, <1>2, <2>1 DEF LockOK
<1>5. AttemptsOK'
  <2>. SUFFICES ASSUME NEW d \in Channels PROVE Attempts(lane'[d], final[lane'[d].msg])
    BY <1>1 DEF AttemptsOK
  <2>1. CASE lane'[d].phase \notin BusyPhases
    BY <2>1, IdleAttempts
  <2>2. CASE lane'[d].phase \in BusyPhases
    BY <1>2, <2>2, LaneFacts DEF Attempts
  <2>. QED BY <2>1, <2>2
<1>6. Untried'
  <2>1. Untried /\ \A m \in Messages : ChannelOf[m] \in Channels
    BY ChannelAssumption DEF IInv
  <2>2. \A d \in Channels : Active(d)' = Active(d)
    BY <1>2 DEF Active
  <2>. QED BY <1>1, <2>1, <2>2 DEF Untried
<1>7. CalledOK'
  <2>1. "call" \in BusyPhases
    BY DEF BusyPhases, CallPhases
  <2>2. ASSUME NEW m, Calling(m) PROVE Calling(m)'
    BY <1>2, <2>1, <2>2 DEF Calling
  <2>. QED BY <1>1, <2>2 DEF IInv, CalledOK
<1>8. WithdrawnNeverSent'
  BY <1>1 DEF IInv, WithdrawnNeverSent
<1>. QED BY <1>3, <1>4, <1>5, <1>6, <1>7, <1>8 DEF Inner

\* The dispatcher's steps keep the invariant.
LEMMA ManagedInvariant ==
    ASSUME IInv, Dispatch \/ Finish \/ Fail \/ CancelDispatcher
    PROVE  LineMove /\ Inner' /\ TypeOK'
<1>1. PICK R \in SUBSET InPhase("cancelled") :
         Dispatch \/ Finish \/ (Abandon(R) /\ dispatcher \in {"loop", "finishing"})
  BY DEF Fail, CancelDispatcher
<1>2. LineMove /\ Managing
  BY <1>1, TurnMoves, AbandonMoves
<1>3. TypeOK /\ TableOK /\ BacklogsOK /\ queue \in Seq(Messages) /\ Fetched \in Seq(Messages)
  <2>1. BacklogsOK
    BY LaneFacts, RecordFields DEF LaneOK, BacklogsOK
  <2>. QED BY <2>1, EmptySeq DEF IInv, TypeOK, Fetched
<1>4. R \in SUBSET Channels
  BY DEF InPhase
<1>5. queue' \in Seq(Messages) /\ fetched' = None
  <2>1. CASE Dispatch \/ Finish
    <3>1. Backlogs(InPhase("cancelled")) \in Seq(Messages)
      BY <1>3, OfBacklogs DEF InPhase
    <3>. QED BY <1>3, <2>1, <3>1, TurnFields, ConcatProperties
  <2>2. CASE Abandon(R)
    <3>. DEFINE a == Backlogs(Channels \ R)
                b == Backlogs(R)
                s == (a \o Fetched) \o b
    <3>1. a \in Seq(Messages) /\ b \in Seq(Messages)
      BY <1>3, <1>4, OfBacklogs
    <3>2. queue' = s \o queue /\ fetched' = None
      BY <2>2 DEF Abandon, Requeue
    <3>. HIDE DEF a, b
    <3>3. a \o Fetched \in Seq(Messages)
      BY <1>3, <3>1, ConcatProperties
    <3>4. s \in Seq(Messages)
      BY <3>1, <3>3, ConcatProperties
    <3>. HIDE DEF s
    <3>. QED BY <1>3, <3>2, <3>4, ConcatProperties
  <2>. QED BY <1>1, <2>1, <2>2
<1>6. /\ dispatcher' \in {"off", "loop", "finishing", "aborting"} /\ running' \in BOOLEAN
      /\ abandoned' \subseteq Channels
      /\ TableOK'
  <2>1. CASE Dispatch
    <3>1. /\ dispatcher = "loop" /\ abandoned = {} /\ dispatcher' \in {"loop", "finishing"}
          /\ running' = running /\ abandoned' = abandoned
      BY <1>3, <2>1 DEF Dispatch, TableOK
    <3>. QED BY <1>3, <1>5, <3>1 DEF TableOK, TypeOK
  <2>2. CASE Finish
    <3>1. /\ dispatcher = "finishing" /\ abandoned = {} /\ running' = running /\ abandoned' = abandoned
          /\ dispatcher' = IF \A ch \in Channels : lane'[ch] = NoLane THEN "off" ELSE dispatcher
      BY <1>3, <2>2 DEF Finish, TableOK
    <3>. QED BY <1>3, <1>5, <3>1 DEF TableOK, TypeOK
  <2>3. CASE Abandon(R) /\ dispatcher \in {"loop", "finishing"}
    <3>1. dispatcher' = "aborting" /\ running' = running
      BY <2>3 DEF Abandon
    <3>. QED BY <1>3, <1>5, <2>3, <3>1, AbandonFields DEF TableOK, TypeOK
  <2>. QED BY <1>1, <2>1, <2>2, <2>3
<1>7. Inner'
  BY <1>2, <1>6, ManagedInner
<1>8. TypeOK'
  <2>1. unfinished' \in Nat
    BY <1>2, PlacesKept
  <2>2. lane' \in [Channels -> LaneRecords] /\ UNCHANGED <<lock, host, outcomes, published, ghosts>>
    BY <1>2 DEF Managing
  <2>. QED BY <1>3, <1>5, <1>6, <2>1, <2>2 DEF TypeOK, LaneRecords, host, outcomes, ghosts
<1>. QED BY <1>2, <1>7, <1>8

-----------------------------------------------------------------------------
(* The invariant after the other steps                                     *)

\* Steps that leave the lanes alone.
LEMMA QuietInner ==
    ASSUME IInv, UNCHANGED <<lane, abandoned, settled, started, final>>,
           TableOK', LockOK', WithdrawnNeverSent'
    PROVE  Inner'
<1>1. \A d \in Channels : LaneOK(d)'
  BY LaneFacts DEF LaneOK
<1>2. AttemptsOK'
  BY DEF IInv, AttemptsOK
<1>3. Untried'
  BY DEF IInv, Untried, Active
<1>4. CalledOK'
  BY DEF IInv, CalledOK, Calling
<1>. QED BY <1>1, <1>2, <1>3, <1>4 DEF Inner

\* Steps that leave the lines alone.
LEMMA RestingMove ==
    ASSUME UNCHANGED <<lane, fetched, queue, published, settled, unfinished>>
    PROVE  LineMove
BY DEF LineMove, Resting, Line, Active, Of, Fetched

\* A message is published.
LEMMA PublishInvariant ==
    ASSUME IInv, NEW m \in Messages, Publish(m)
    PROVE  LineMove /\ Inner' /\ TypeOK'
<1>1. TypeOK /\ queue \in Seq(Messages) /\ published \in Seq(Messages) /\ Fetched \in Seq(Messages)
  BY EmptySeq DEF IInv, TypeOK, Fetched
<1>2. /\ queue' = Append(queue, m) /\ published' = Append(published, m) /\ unfinished' = unfinished + 1
      /\ m \notin ToSet(published)
      /\ UNCHANGED <<fetched, lane, abandoned, lock, revoked, settled, started, final>>
      /\ UNCHANGED <<dispatcher, running, subscribers, handovers>>
      /\ answer' = [a \in Acknowledged |-> IF a = m THEN "waiting" ELSE answer[a]]
  BY DEF Publish, lanes, loop, host, ghosts
<1>3. ASSUME NEW d \in Channels
      PROVE  Line(d)' = IF d = ChannelOf[m] THEN Append(Line(d), m) ELSE Line(d)
  <2>. DEFINE s == Fetched \o queue
              b == lane[d].backlog
  <2>1. s \in Seq(Messages) /\ b \in Seq(Messages) /\ <<m>> \in Seq(Messages)
    BY <1>1, ConcatProperties, LineParts
  <2>2. Fetched \o Append(queue, m) = s \o <<m>>
    <3>1. Append(queue, m) = queue \o <<m>>
      BY <1>1, ConcatAppended
    <3>. QED BY <1>1, <2>1, <3>1, ConcatAssociative
  <2>3. Fetched' = Fetched /\ lane' = lane
    BY <1>2 DEF Fetched
  <2>4. Line(d)' = b \o Of(d, s \o <<m>>)
    <3>1. Of(d, Fetched \o queue)' = Of(d, s \o <<m>>)
      BY <1>2, <2>2, <2>3 DEF Of
    <3>2. Line(d)' = lane'[d].backlog \o Of(d, Fetched \o queue)'
      BY DEF Line
    <3>. QED BY <2>3, <3>1, <3>2
  <2>5. Line(d) = b \o Of(d, s)
    BY DEF Line
  <2>. HIDE DEF s, b
  <2>6. Of(d, s \o <<m>>) = Of(d, s) \o Of(d, <<m>>) /\ Of(d, s) \in Seq(Messages)
    BY <2>1, OfConcat, BitsType
  <2>7. Of(d, <<m>>) = IF d = ChannelOf[m] THEN <<m>> ELSE <<>>
    BY OfOne DEF Bit
  <2>. DEFINE o == Of(d, s)
  <2>8. o \in Seq(Messages)
    BY <2>6
  <2>9. Line(d)' = b \o (o \o Of(d, <<m>>)) /\ Line(d) = b \o o
    BY <2>4, <2>5, <2>6
  <2>. HIDE DEF o
  <2>10. CASE d = ChannelOf[m]
    <3>1. b \o (o \o <<m>>) = (b \o o) \o <<m>>
      BY <2>1, <2>8, ConcatAssociative
    <3>2. b \o o \in Seq(Messages)
      BY <2>1, <2>8, ConcatProperties
    <3>3. Append(Line(d), m) = Line(d) \o <<m>>
      BY <2>9, <3>2, ConcatAppended
    <3>. QED BY <2>7, <2>9, <2>10, <3>1, <3>3
  <2>11. CASE d # ChannelOf[m]
    <3>1. o \o <<>> = o
      BY <2>8, ConcatEmptySeq
    <3>. QED BY <2>7, <2>9, <2>11, <3>1
  <2>. QED BY <2>10, <2>11
<1>4. LineMove
  BY <1>2, <1>3 DEF LineMove, Entered, Active
<1>5. TableOK' /\ LockOK' /\ WithdrawnNeverSent'
  BY <1>2 DEF IInv, TableOK, LockOK, WithdrawnNeverSent
<1>6. Inner'
  BY <1>2, <1>5, QuietInner
<1>7. TypeOK'
  <2>1. queue' \in Seq(Messages) /\ published' \in Seq(Messages)
    BY <1>1, <1>2, AppendProperties
  <2>2. answer' \in [Acknowledged -> Answers] /\ unfinished' \in Nat
    BY <1>1, <1>2 DEF TypeOK, Answers
  <2>. QED BY <1>1, <1>2, <2>1, <2>2 DEF TypeOK
<1>. QED BY <1>4, <1>6, <1>7

\* The getter task takes a message.
LEMMA FetchInvariant ==
    ASSUME IInv, Fetch
    PROVE  LineMove /\ Inner' /\ TypeOK'
<1>1. /\ TypeOK /\ queue \in Seq(Messages) /\ queue # <<>> /\ fetched = None /\ dispatcher = "loop"
      /\ fetched' = Head(queue) /\ queue' = Tail(queue)
      /\ UNCHANGED <<unfinished, lane, abandoned, dispatcher, running, lock, subscribers, handovers,
                     answer, revoked, published, settled, started, final>>
  BY DEF IInv, TypeOK, Fetch, lanes, loop, host, outcomes, ghosts
<1>2. /\ Head(queue) \in Messages /\ Tail(queue) \in Seq(Messages) /\ Head(queue) # None
      /\ <<Head(queue)>> \o Tail(queue) = queue
  <2>1. /\ Head(queue) = queue[1] /\ Tail(queue) \in Seq(Messages) /\ Len(queue) \in Nat /\ Len(queue) # 0
        /\ Len(Tail(queue)) = Len(queue) - 1 /\ \A i \in 1..(Len(queue) - 1) : Tail(queue)[i] = queue[i + 1]
    BY <1>1, HeadTailProperties, EmptySeq, LenProperties
  <2>2. 1 \in 1..Len(queue) /\ Head(queue) \in Messages
    BY <1>1, <2>1, ElementOfSeq
  <2>. DEFINE h == <<Head(queue)>>
              t == Tail(queue)
              u == h \o t
  <2>3. h \in Seq(Messages) /\ t \in Seq(Messages) /\ Len(h) = 1 /\ h[1] = queue[1]
    BY <2>1, <2>2
  <2>. HIDE DEF h, t
  <2>4. Joined(h, t, u)
    BY <2>3, Joins
  <2>. HIDE DEF u
  <2>5. /\ u \in Seq(Messages) /\ Len(u) = 1 + Len(t)
        /\ \A i \in 1..(1 + Len(t)) : u[i] = IF i <= 1 THEN h[i] ELSE t[i - 1]
    BY <2>3, <2>4 DEF Joined
  <2>6. Len(t) = Len(queue) - 1 /\ \A i \in 1..(Len(queue) - 1) : t[i] = queue[i + 1]
    BY <2>1 DEF t
  <2>7. ASSUME NEW i \in 1..Len(queue) PROVE u[i] = queue[i]
    <3>1. CASE i = 1
      BY <2>1, <2>3, <2>5, <2>6, <3>1
    <3>2. CASE i # 1
      <4>1. i \in 1..(1 + Len(t)) /\ ~(i <= 1) /\ i - 1 \in 1..(Len(queue) - 1) /\ (i - 1) + 1 = i
        BY <2>1, <2>6, <3>2
      <4>. QED BY <2>5, <2>6, <4>1
    <3>. QED BY <3>1, <3>2
  <2>8. u = queue
    <3>1. Len(u) = Len(queue)
      BY <2>1, <2>5, <2>6
    <3>. QED BY <1>1, <2>5, <2>7, <3>1, SeqEqual
  <2>. QED BY <2>1, <2>2, <2>8, NoMessage DEF u, h, t
<1>3. Fetched' \o queue' = queue /\ Fetched \o queue = queue
  <2>1. Fetched' = <<Head(queue)>> /\ Fetched = <<>>
    BY <1>1, <1>2 DEF Fetched
  <2>. QED BY <1>1, <1>2, <2>1, ConcatEmptySeq
<1>4. \A d \in Channels : Line(d)' = Line(d) /\ Active(d)' = Active(d)
  <2>. TAKE d \in Channels
  <2>1. Of(d, Fetched \o queue)' = Of(d, Fetched \o queue)
    BY <1>3 DEF Of
  <2>. QED BY <1>1, <2>1 DEF Line, Active
<1>5. LineMove
  BY <1>1, <1>4 DEF LineMove, Resting
<1>6. TableOK' /\ LockOK' /\ WithdrawnNeverSent'
  BY <1>1 DEF IInv, TableOK, LockOK, WithdrawnNeverSent
<1>7. Inner'
  BY <1>1, <1>6, QuietInner
<1>8. TypeOK'
  BY <1>1, <1>2 DEF TypeOK
<1>. QED BY <1>5, <1>7, <1>8

\* Steps that move no message.
LEMMA StillInvariant ==
    ASSUME IInv,
           \/ \E m \in Acknowledged : Withdraw(m)
           \/ \E m \in Guarded : Revoke(m)
           \/ Start \/ Stop \/ Aborted \/ BeginHandover
           \/ \E ch \in Channels : \E S \in SUBSET Transports : EndHandover(ch, S)
           \/ UNCHANGED vars
    PROVE  LineMove /\ Inner' /\ TypeOK'
<1>1. TypeOK /\ TableOK /\ LockOK /\ WithdrawnNeverSent /\ CalledOK
  BY DEF IInv
<1>2. UNCHANGED <<lane, abandoned, fetched, queue, published, settled, started, final, unfinished>>
  BY DEF Withdraw, Revoke, Start, Stop, Aborted, BeginHandover, EndHandover, vars, bus, lanes, ghosts
<1>3. LineMove
  BY <1>2, RestingMove
<1>4. SUFFICES TableOK' /\ LockOK' /\ WithdrawnNeverSent' /\ TypeOK'
  BY <1>2, <1>3, QuietInner
<1>5. ASSUME NEW m \in Acknowledged, Withdraw(m) PROVE TableOK' /\ LockOK' /\ WithdrawnNeverSent' /\ TypeOK'
  <2>1. /\ ~Calling(m) /\ m \notin settled /\ answer' = [answer EXCEPT ![m] = "withdrawn"]
        /\ UNCHANGED <<dispatcher, running, lock, subscribers, handovers, revoked>>
    BY <1>5 DEF Withdraw, loop, host
  <2>2. m \notin started
    BY <1>1, <2>1 DEF CalledOK
  <2>3. WithdrawnNeverSent'
    BY <1>1, <1>2, <2>1, <2>2 DEF WithdrawnNeverSent, TypeOK
  <2>4. answer' \in [Acknowledged -> Answers]
    BY <1>1, <2>1 DEF TypeOK, Answers
  <2>. QED BY <1>1, <1>2, <2>1, <2>3, <2>4 DEF TableOK, LockOK, TypeOK
<1>6. ASSUME NEW m \in Guarded, Revoke(m) PROVE TableOK' /\ LockOK' /\ WithdrawnNeverSent' /\ TypeOK'
  <2>1. /\ revoked' = revoked \cup {m}
        /\ UNCHANGED <<dispatcher, running, lock, subscribers, handovers, answer>>
    BY <1>6 DEF Revoke, loop, host
  <2>. QED BY <1>1, <1>2, <2>1 DEF TableOK, LockOK, TypeOK, WithdrawnNeverSent
<1>7. CASE Start
  <2>1. /\ dispatcher = "off" /\ dispatcher' = "loop" /\ running' = TRUE
        /\ UNCHANGED <<lock, subscribers, handovers, answer, revoked>>
    BY <1>7 DEF Start, host, outcomes
  <2>. QED BY <1>1, <1>2, <2>1 DEF TableOK, LockOK, TypeOK, WithdrawnNeverSent
<1>8. CASE Stop
  <2>1. running' = FALSE /\ UNCHANGED <<dispatcher, lock, subscribers, handovers, answer, revoked>>
    BY <1>8 DEF Stop, host, outcomes
  <2>. QED BY <1>1, <1>2, <2>1 DEF TableOK, LockOK, TypeOK, WithdrawnNeverSent
<1>9. CASE Aborted
  <2>1. /\ dispatcher = "aborting" /\ abandoned = {} /\ dispatcher' = "off"
        /\ UNCHANGED <<running, lock, subscribers, handovers, answer, revoked>>
    BY <1>9 DEF Aborted, host, outcomes
  <2>. QED BY <1>1, <1>2, <2>1 DEF TableOK, LockOK, TypeOK, WithdrawnNeverSent
<1>10. CASE BeginHandover
  <2>1. /\ lock = None /\ handovers < MaxHandovers /\ lock' = Host
        /\ UNCHANGED <<dispatcher, running, subscribers, handovers, answer, revoked>>
    BY <1>10 DEF BeginHandover, loop, host, outcomes
  <2>2. \A ch \in Channels : lane[ch].phase \notin CallPhases
    BY <1>1, <2>1, ChannelAssumption DEF LockOK
  <2>. QED BY <1>1, <1>2, <2>1, <2>2 DEF TableOK, LockOK, TypeOK, WithdrawnNeverSent
<1>11. ASSUME NEW ch \in Channels, NEW S \in SUBSET Transports, EndHandover(ch, S)
       PROVE  TableOK' /\ LockOK' /\ WithdrawnNeverSent' /\ TypeOK'
  <2>1. /\ lock = Host /\ lock' = None /\ subscribers' = [subscribers EXCEPT ![ch] = S]
        /\ handovers' = handovers + 1
        /\ UNCHANGED <<dispatcher, running, answer, revoked>>
    BY <1>11 DEF EndHandover, loop, outcomes
  <2>2. \A d \in Channels : lane[d].phase \notin CallPhases
    BY <1>1, <2>1, ChannelAssumption DEF LockOK
  <2>3. handovers' \in 0..MaxHandovers
    BY <1>1, <2>1, ChannelAssumption DEF LockOK, TypeOK
  <2>4. LockOK'
    BY <1>2, <2>1, <2>2, ChannelAssumption DEF LockOK
  <2>. QED BY <1>1, <1>2, <2>1, <2>3, <2>4 DEF TableOK, TypeOK, WithdrawnNeverSent
<1>12. CASE UNCHANGED vars
  BY <1>1, <1>2, <1>12 DEF vars, loop, host, outcomes, TableOK, LockOK, TypeOK, WithdrawnNeverSent
<1>. QED BY <1>5, <1>6, <1>7, <1>8, <1>9, <1>10, <1>11, <1>12

-----------------------------------------------------------------------------
(* The theorems                                                            *)

\* At the start nothing is anywhere.
LEMMA InitInvariant == Init => IInv
<1>. SUFFICES ASSUME Init PROVE IInv
  OBVIOUS
<1>1. /\ queue = <<>> /\ unfinished = 0 /\ fetched = None
      /\ lane = [ch \in Channels |-> NoLane] /\ abandoned = {}
      /\ dispatcher = "off" /\ running = FALSE /\ lock = None
      /\ subscribers = Subscribed /\ handovers = 0
      /\ answer = [m \in Acknowledged |-> "none"] /\ revoked = {} /\ published = <<>>
      /\ settled = {} /\ started = {} /\ final = [m \in Messages |-> {}]
  BY DEF Init
<1>2. \A ch \in Channels : lane[ch] = NoLane
  BY <1>1
<1>3. <<>> \in Seq(Messages) /\ DOMAIN <<>> = {} /\ \A c : AllFor(c, <<>>)
  BY EmptySeq DEF AllFor
<1>4. TypeOK
  <2>1. lane \in [Channels -> LaneRecords]
    BY <1>1, NoLaneFields
  <2>2. handovers \in 0..MaxHandovers /\ subscribers \in [Channels -> SUBSET Transports]
    BY <1>1, ChannelAssumption
  <2>3. answer \in [Acknowledged -> Answers] /\ final \in [Messages -> SUBSET Transports]
    BY <1>1 DEF Answers
  <2>4. queue \in Seq(Messages) /\ published \in Seq(Messages) /\ unfinished \in Nat
    BY <1>1, <1>3
  <2>. QED BY <1>1, <2>1, <2>2, <2>3, <2>4 DEF TypeOK, LaneRecords
<1>5. NoLane.phase \notin BusyPhases \cup DonePhases \cup RetryPhases
  BY NoLaneFields DEF BusyPhases, CallPhases, DonePhases, RetryPhases
<1>6. \A ch \in Channels : LaneOK(ch)
  BY <1>2, <1>3, <1>5, NoLaneFields DEF LaneOK, DonePhases
<1>7. TableOK /\ LockOK
  <2>1. lock # Host
    BY <1>1, ChannelAssumption
  <2>2. \A ch \in Channels : lane[ch].phase \notin CallPhases
    BY <1>2, <1>5 DEF BusyPhases
  <2>. QED BY <1>1, <1>2, <2>1, <2>2 DEF TableOK, LockOK
<1>8. AttemptsOK
  BY <1>2, <1>5, IdleAttempts DEF AttemptsOK
<1>9. Untried /\ CalledOK /\ WithdrawnNeverSent
  BY <1>1 DEF Untried, CalledOK, WithdrawnNeverSent
<1>10. ToSet(published) = {}
  BY <1>1, <1>3 DEF ToSet
<1>11. ASSUME NEW ch \in Channels PROVE Line(ch) = <<>> /\ Active(ch) = None
  <2>1. Fetched \o queue = <<>>
    BY <1>1, <1>3, ConcatEmptySeq DEF Fetched
  <2>. QED BY <1>2, <1>3, <2>1, NoLaneFields, OfEmpty, ConcatEmptySeq DEF Line, Active
<1>12. PlacesOK
  <2>1. IsInjective(<<>>)
    BY <1>3 DEF IsInjective
  <2>. QED BY <1>1, <1>3, <1>10, <1>11, <2>1 DEF PlacesOK, PlacedAs
<1>13. JoinCounts
  <2>1. ToSet(published) \ settled = {}
    BY <1>10
  <2>. QED BY <1>1, <2>1, FS_EmptySet DEF JoinCounts
<1>. QED BY <1>4, <1>6, <1>7, <1>8, <1>9, <1>12, <1>13 DEF IInv

\* A step is one of a lane's task, of the dispatcher, or another one.
LEMMA NextSteps ==
    ASSUME IInv, [Next]_vars
    PROVE  \/ \E c \in Channels : Works(c)
           \/ Dispatch \/ Finish \/ Fail \/ CancelDispatcher
           \/ \E m \in Messages : Publish(m)
           \/ Fetch
           \/ \/ \E m \in Acknowledged : Withdraw(m)
              \/ \E m \in Guarded : Revoke(m)
              \/ Start \/ Stop \/ Aborted \/ BeginHandover
              \/ \E ch \in Channels : \E S \in SUBSET Transports : EndHandover(ch, S)
              \/ UNCHANGED vars
BY LanesWork DEF Next, Publishing, Dispatching, Switching

\* Every step keeps the invariant and moves the lines.
LEMMA StepInvariant ==
    ASSUME IInv, [Next]_vars
    PROVE  IInv' /\ LineMove
<1>1. LineMove /\ Inner' /\ TypeOK'
  <2>1. CASE \E c \in Channels : Works(c)
    BY <2>1, WorksInvariant, WorksMove
  <2>2. CASE Dispatch \/ Finish \/ Fail \/ CancelDispatcher
    BY <2>2, ManagedInvariant
  <2>3. CASE \E m \in Messages : Publish(m)
    BY <2>3, PublishInvariant
  <2>4. CASE Fetch
    BY <2>4, FetchInvariant
  <2>5. CASE \/ \E m \in Acknowledged : Withdraw(m)
             \/ \E m \in Guarded : Revoke(m)
             \/ Start \/ Stop \/ Aborted \/ BeginHandover
             \/ \E ch \in Channels : \E S \in SUBSET Transports : EndHandover(ch, S)
             \/ UNCHANGED vars
    BY <2>5, StillInvariant
  <2>. QED BY <2>1, <2>2, <2>3, <2>4, <2>5, NextSteps
<1>2. PlacesOK' /\ JoinCounts'
  BY <1>1, PlacesKept
<1>. QED BY <1>1, <1>2 DEF Inner, IInv

\* The invariant holds in every reachable state.
LEMMA Inductive == Spec => []IInv
<1>1. IInv /\ [Next]_vars => IInv'
  BY StepInvariant
<1>. QED BY <1>1, InitInvariant, PTL DEF Spec

\* Every variable has its type; the count that join() awaits never goes below
\* zero (queue.py, task_done()).
THEOREM TypeCorrect == Spec => []TypeOK
<1>1. IInv => TypeOK
  BY DEF IInv
<1>. QED BY <1>1, Inductive, PTL

\* A withdrawn acknowledged message never reaches a transport (acknowledged.py,
\* cancel_waiting_outbound()).
THEOREM WithdrawalHolds == Spec => []WithdrawnNeverSent
<1>1. IInv => WithdrawnNeverSent
  BY DEF IInv
<1>. QED BY <1>1, Inductive, PTL

\* join() returns exactly when no message is queued, fetched, routed or in
\* delivery (queue.py, drain_outbound()).
THEOREM JoinIsExact == Spec => []JoinCounts
<1>1. IInv => JoinCounts
  BY DEF IInv
<1>. QED BY <1>1, Inductive, PTL

\* A callback runs only while its transport is subscribed (channel_host.py
\* exchanges transports under the transport lock).
THEOREM RunsSubscribed == Spec => []RunningSubscribed
<1>1. IInv => RunningSubscribed
  BY DEF IInv, LockOK, RunningSubscribed
<1>. QED BY <1>1, Inductive, PTL

\* A callback is called for the message that its lane delivers.
LEMMA CallsFacts ==
    ASSUME IInv, [Next]_vars, NEW ch \in Channels, Calls(ch)
    PROVE  /\ lane'[ch].transport \notin final[lane'[ch].msg]
           /\ lane'[ch].msg \notin revoked
<1>1. lane'[ch].phase \in CallPhases /\ Doing(lane'[ch]) # Doing(lane[ch])
  BY DEF Calls
<1>2. ASSUME NEW c \in Channels, Works(c)
      PROVE  /\ lane'[ch].transport \notin final[lane'[ch].msg]
             /\ lane'[ch].msg \notin revoked
  <2>1. PICK q : /\ lane' = [lane EXCEPT ![c] = q]
                 /\ \/ Keeps(c, q)
                    \/ q.phase \in DonePhases \cup {"none", "lock"}
    BY <1>2, NoLaneFields DEF Works, Keeps, Leaves, Begins, Vanishes, DonePhases
  <2>2. ch = c /\ lane'[ch] = q
    BY <1>1, <2>1, LaneFacts
  <2>3. Keeps(c, q)
    BY <1>1, <2>1, <2>2 DEF CallPhases, DonePhases
  <2>. QED BY <1>1, <2>2, <2>3 DEF Keeps
<1>3. CASE Dispatch \/ Finish \/ Fail \/ CancelDispatcher
  <2>1. Managing
    BY <1>3, TurnMoves, AbandonMoves DEF Fail, CancelDispatcher
  <2>2. "created" \notin CallPhases /\ "none" \notin CallPhases
    BY DEF CallPhases
  <2>. QED BY <1>1, <2>1, <2>2, NoLaneFields DEF Managing, ManagedAs, Doing
<1>4. CASE lane' = lane
  BY <1>1, <1>4
<1>. QED BY <1>2, <1>3, <1>4, NextSteps
     DEF Publish, Fetch, Withdraw, Revoke, Start, Stop, Aborted, BeginHandover, EndHandover, lanes, vars

\* A transport that accepted or refused a message does not get it again
\* (queue.py, _deliver() and _retry_targets()).
THEOREM NeverReplayed == Spec => NoReplay
<1>1. IInv /\ [Next]_vars
        => [\A ch \in Channels : Calls(ch) => lane'[ch].transport \notin final[lane'[ch].msg]]_vars
  BY CallsFacts
<1>. QED BY <1>1, Inductive, PTL DEF Spec, NoReplay

\* No callback is called once the message's authority is gone (queue.py,
\* _may_deliver()).
THEOREM RevocationHolds == Spec => NoCallAfterRevoke
<1>1. IInv /\ [Next]_vars
        => [\A ch \in Channels : Calls(ch) => lane'[ch].msg \notin revoked]_vars
  BY CallsFacts
<1>. QED BY <1>1, Inductive, PTL DEF Spec, NoCallAfterRevoke

\* Whatever the transports do, a message leaves its place only for the next one,
\* in order, except that the fetched message may pass those that a lane whose
\* callback ended cancelled gave back (queue.py, _return_to_queue_front()).
THEOREM LinesMove == Spec => [][LineMove]_vars
<1>1. IInv /\ [Next]_vars => [LineMove]_vars
  BY StepInvariant
<1>. QED BY <1>1, Inductive, PTL DEF Spec

\* The initial lines are the abstract ones.
LEMMA LinesInit == ASSUME Init PROVE Lines!Init
<1>1. IInv /\ queue = <<>> /\ fetched = None /\ lane = [ch \in Channels |-> NoLane] /\ settled = {}
  BY InitInvariant DEF Init
<1>2. ASSUME NEW ch \in Channels PROVE Line(ch) = <<>> /\ Active(ch) = None
  <2>1. Fetched \o queue = <<>> /\ <<>> \in Seq(Messages)
    BY <1>1, EmptySeq, ConcatEmptySeq DEF Fetched
  <2>. QED BY <1>1, <2>1, NoLaneFields, OfEmpty, ConcatEmptySeq DEF Line, Active
<1>. QED BY <1>1, <1>2 DEF Lines!Init

\* A move of the lines that overtakes nothing is a step of the abstract lines.
LEMMA LinesStep ==
    ASSUME IInv, LineMove, ~CallbackCancels
    PROVE  [Lines!Next]_Lines!vars
<1>. DEFINE L == [ch \in Channels |-> Line(ch)]
            A == [ch \in Channels |-> Active(ch)]
<1>1. CASE Resting
  BY <1>1 DEF Resting, Lines!vars
<1>2. ASSUME NEW m \in Messages, Entered(m) PROVE Lines!Submit(m)
  <2>1. ChannelOf[m] \in Channels /\ m # None
    BY ChannelAssumption
  <2>2. PICK c \in Channels : c = ChannelOf[m]
    BY <2>1
  <2>3. PlacedAs(c, Line(c), Active(c), settled, ToSet(published)) /\ settled \subseteq ToSet(published)
    BY DEF IInv, PlacesOK
  <2>4. m \notin settled /\ Active(c) # m /\ \A i \in DOMAIN Line(c) : Line(c)[i] # m
    BY <1>2, <2>1, <2>3 DEF Entered, PlacedAs
  <2>5. /\ [ch \in Channels |-> Line(ch)]' = [L EXCEPT ![c] = Append(L[c], m)]
        /\ [ch \in Channels |-> Active(ch)]' = A /\ settled' = settled
    BY <1>2, <2>2 DEF Entered
  <2>. QED BY <2>2, <2>4, <2>5 DEF Lines!Submit, Lines!Waiting
<1>3. ASSUME NEW c \in Channels, Advanced(c) PROVE Lines!Advance(c)
  <2>1. /\ settled' = settled \cup ({A[c]} \ {None})
        /\ \A d \in Channels \ {c} : Line(d)' = Line(d) /\ Active(d)' = Active(d)
    BY <1>3 DEF Advanced, SameBut
  <2>2. CASE Line(c) # <<>> /\ Active(c)' = Head(Line(c)) /\ Line(c)' = Tail(Line(c))
    <3>1. /\ L[c] # <<>>
          /\ [ch \in Channels |-> Line(ch)]' = [L EXCEPT ![c] = Tail(L[c])]
          /\ [ch \in Channels |-> Active(ch)]' = [A EXCEPT ![c] = Head(L[c])]
      BY <2>1, <2>2
    <3>. QED BY <2>1, <3>1 DEF Lines!Advance
  <2>3. CASE Active(c)' = None /\ Line(c)' = Line(c)
    <3>1. /\ [ch \in Channels |-> Line(ch)]' = L
          /\ [ch \in Channels |-> Active(ch)]' = [A EXCEPT ![c] = None]
      BY <2>1, <2>3
    <3>. QED BY <2>1, <3>1 DEF Lines!Advance
  <2>. QED BY <1>3, <2>2, <2>3 DEF Advanced
<1>. QED BY <1>1, <1>2, <1>3 DEF LineMove, Overtaken, Lines!Next

\* The bus is a line per channel, as long as no transport's callback ends
\* cancelled (queue.py, dispatch_outbound()).
THEOREM Implementation ==
    ASSUME CallbackCancels = FALSE PROVE Spec => ImplementsLines
<1>1. Init => Lines!Init
  BY LinesInit
<1>2. IInv /\ [Next]_vars => [Lines!Next]_Lines!vars
  BY StepInvariant, LinesStep
<1>. QED BY <1>1, <1>2, Inductive, PTL DEF Spec, ImplementsLines, Lines!Spec
=============================================================================
