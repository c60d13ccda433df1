--------------------------- MODULE FramingProofs ---------------------------
(***************************************************************************)
(* Theorems about Framing, for any senders, messages and sizes.            *)
(*                                                                         *)
(* What is in the reader's buffer and on the wire, and what the sender     *)
(* inside the lock has still to hand over, is always the encoding of some  *)
(* whole messages one after the other (Framed): the lock keeps a second    *)
(* sender's pieces out, and the reader takes whole lines off the front.    *)
(***************************************************************************)
EXTENDS Framing, FiniteSetTheorems, SequenceTheorems, TLAPS

(* Where the k-th message of a text ends. *)
Ends(k) == k * (Size + 1)

(* The text f is the encoding of the messages q, or the beginning of it.   *)
Carries(f, q) ==
    /\ Len(f) <= Ends(Len(q))
    /\ \A i \in 1 .. Len(f) : \E k \in 1 .. Len(q), j \in 1 .. Size + 1 :
          i = Ends(k - 1) + j /\ f[i] = Encode(q[k])[j]

Stream == buffer \o wire

Complete(f, q) == Carries(f, q) /\ Len(f) = Ends(Len(q))

Framed ==
    \E q \in Seq(Messages) :
        /\ Carries(Stream, q)
        /\ up /\ sending = {} => Complete(Stream, q)
        /\ up => \A s \in sending : Complete(Stream \o portion[s], q)

TakingTurns ==
    /\ \A s, r \in sending : s = r
    /\ \A s \in sending : Len(portion[s]) <= Size + 1

TypeInv ==
    /\ unsent \subseteq Messages
    /\ sending \subseteq Senders
    /\ portion \in [Senders -> Seq(Bytes)]
    /\ up \in BOOLEAN
    /\ wire \in Seq(Bytes)
    /\ buffer \in Seq(Bytes)

IInv == TypeOK /\ TakingTurns /\ Framed

-----------------------------------------------------------------------------
(* Where the bytes of a message are. *)

LEMMA SizeType == Size \in Nat /\ Size >= 1
BY FramingAssumption

LEMMA EndsAre ==
    /\ Ends(0) = 0
    /\ \A k \in Nat : Ends(k) \in Nat /\ Ends(k + 1) = Ends(k) + Size + 1
    /\ \A k, l \in Nat : k < l => Ends(k) + Size + 1 <= Ends(l)
<1>1. Ends(0) = 0
  BY SizeType DEF Ends
<1>2. \A k \in Nat : Ends(k) \in Nat /\ Ends(k + 1) = Ends(k) + Size + 1
  BY SizeType DEF Ends
<1>3. ASSUME NEW k \in Nat, NEW l \in Nat, k < l
      PROVE  Ends(k) + Size + 1 <= Ends(l)
  <2>1. PICK c \in Nat : l = k + 1 + c
    <3>1. l - k - 1 \in Nat /\ l = k + 1 + (l - k - 1)
      BY <1>3
    <3>2. QED
      BY <3>1
  <2>2. Ends(l) = (k + 1) * (Size + 1) + c * (Size + 1)
    BY <2>1, SizeType DEF Ends
  <2>3. c * (Size + 1) >= 0
    BY SizeType
  <2>4. (k + 1) * (Size + 1) = Ends(k) + Size + 1
    BY SizeType DEF Ends
  <2>5. QED
    BY <1>2, <2>2, <2>3, <2>4, SizeType
<1>4. QED
  BY <1>1, <1>2, <1>3

LEMMA EndsOrder ==
    ASSUME NEW k \in Nat, NEW l \in Nat
    PROVE  /\ Ends(k) \in Nat /\ Ends(l) \in Nat
           /\ k < l => Ends(k) + Size + 1 <= Ends(l)
           /\ k <= l <=> Ends(k) <= Ends(l)
<1>1. /\ Ends(k) \in Nat /\ Ends(l) \in Nat
      /\ k < l => Ends(k) + Size + 1 <= Ends(l)
      /\ l < k => Ends(l) + Size + 1 <= Ends(k)
  BY EndsAre
<1>2. k < l \/ k = l \/ l < k
  OBVIOUS
<1>3. QED
  BY <1>1, <1>2, SizeType

LEMMA OnePlace ==
    ASSUME NEW k \in Nat \ {0}, NEW l \in Nat \ {0},
           NEW i \in 1 .. Size + 1, NEW j \in 1 .. Size + 1,
           Ends(k - 1) + i = Ends(l - 1) + j
    PROVE  k = l /\ i = j
<1>1. k - 1 \in Nat /\ l - 1 \in Nat
  OBVIOUS
<1>2. /\ Ends(k - 1) \in Nat /\ Ends(l - 1) \in Nat
      /\ k - 1 < l - 1 => Ends(k - 1) + Size + 1 <= Ends(l - 1)
      /\ l - 1 < k - 1 => Ends(l - 1) + Size + 1 <= Ends(k - 1)
  BY <1>1, EndsAre
<1>3. ~(k - 1 < l - 1) /\ ~(l - 1 < k - 1)
  BY <1>2, SizeType
<1>4. QED
  BY <1>1, <1>2, <1>3

LEMMA NextEnd ==
    ASSUME NEW k \in Nat \ {0}
    PROVE  /\ k - 1 \in Nat /\ Ends(k - 1) \in Nat /\ Ends(k) \in Nat
           /\ Ends(k) = Ends(k - 1) + (Size + 1)
<1>1. k - 1 \in Nat /\ k \in Nat /\ (k - 1) + 1 = k
  OBVIOUS
<1>2. Ends((k - 1) + 1) = Ends(k - 1) + Size + 1
  BY <1>1, EndsAre
<1>3. Ends(k - 1) \in Nat /\ Ends(k) \in Nat
  BY <1>1, EndsAre
<1>4. QED
  BY <1>1, <1>2, <1>3, SizeType

(* Only the last byte of an encoded message is the delimiter. *)
LEMMA Encoded ==
    ASSUME NEW m \in Messages
    PROVE  /\ Encode(m) \in Seq(Bytes) /\ Len(Encode(m)) = Size + 1
           /\ \A j \in 1 .. Size : Encode(m)[j] = <<m, j>>
           /\ Encode(m)[Size + 1] = Delimiter
           /\ \A j \in 1 .. Size + 1 : Encode(m)[j] = Delimiter <=> j = Size + 1
<1>1. Body(m) \in Seq(Bytes) /\ Len(Body(m)) = Size /\ \A j \in 1 .. Size : Body(m)[j] = <<m, j>>
  BY SizeType DEF Body, Bytes
<1>2. Delimiter \in Bytes
  BY DEF Bytes
<1>3. /\ Encode(m) \in Seq(Bytes) /\ Len(Encode(m)) = Size + 1
      /\ \A j \in 1 .. Size : Encode(m)[j] = <<m, j>>
      /\ Encode(m)[Size + 1] = Delimiter
  BY <1>1, <1>2, SizeType DEF Encode
<1>4. \A j \in 1 .. Size : <<m, j>> # Delimiter
  BY FramingAssumption
<1>5. \A j \in 1 .. Size + 1 : j = Size + 1 \/ j \in 1 .. Size
  BY SizeType
<1>6. QED
  BY <1>3, <1>4, <1>5, SizeType

LEMMA BodyTells ==
    ASSUME NEW m \in Messages
    PROVE  Decode(Body(m)) = m
<1>1. \A n \in Messages : Body(m) = Body(n) => m = n
  <2>1. SUFFICES ASSUME NEW n \in Messages, Body(m) = Body(n) PROVE m = n
    OBVIOUS
  <2>2. Body(m)[1] = <<m, 1>> /\ Body(n)[1] = <<n, 1>>
    BY SizeType DEF Body
  <2>3. QED
    BY <2>1, <2>2
<1>2. QED
  BY <1>1 DEF Decode

-----------------------------------------------------------------------------
(* Texts. *)

(* A beginning of a text that carries q carries q. *)
LEMMA CarriesPrefix ==
    ASSUME NEW f \in Seq(Bytes), NEW g \in Seq(Bytes), NEW q \in Seq(Messages),
           Carries(f \o g, q)
    PROVE  Carries(f, q)
<1>1. /\ Len(f) \in Nat /\ Len(g) \in Nat /\ Len(f \o g) = Len(f) + Len(g)
      /\ \A i \in 1 .. Len(f) : i \in 1 .. Len(f \o g) /\ (f \o g)[i] = f[i]
  OBVIOUS
<1>2. Len(q) \in Nat /\ Ends(Len(q)) \in Nat
  BY EndsAre
<1>3. QED
  BY <1>1, <1>2 DEF Carries

LEMMA CarriesMore ==
    ASSUME NEW f \in Seq(Bytes), NEW q \in Seq(Messages), Complete(f, q), NEW m \in Messages
    PROVE  Complete(f \o Encode(m), Append(q, m))
<1> DEFINE g == f \o Encode(m)
           p == Append(q, m)
<1>1. /\ Encode(m) \in Seq(Bytes) /\ Len(Encode(m)) = Size + 1
  BY Encoded
<1>2. /\ Len(f) \in Nat /\ Len(g) = Len(f) + Size + 1
      /\ \A i \in 1 .. Len(f) : g[i] = f[i]
      /\ \A j \in 1 .. Size + 1 : g[Len(f) + j] = Encode(m)[j]
  BY <1>1, SizeType
<1>3. /\ p \in Seq(Messages) /\ Len(q) \in Nat /\ Len(p) = Len(q) + 1
      /\ p[Len(q) + 1] = m /\ \A k \in 1 .. Len(q) : p[k] = q[k]
  OBVIOUS
<1>4. Ends(Len(p)) = Len(g) /\ Len(f) = Ends(Len(q))
  BY <1>2, <1>3, EndsAre DEF Complete
<1> HIDE DEF g, p
<1>5. ASSUME NEW i \in 1 .. Len(g)
      PROVE  \E k \in 1 .. Len(p), j \in 1 .. Size + 1 :
                i = Ends(k - 1) + j /\ g[i] = Encode(p[k])[j]
  <2>1. CASE i \in 1 .. Len(f)
    <3>1. PICK k \in 1 .. Len(q), j \in 1 .. Size + 1 :
             i = Ends(k - 1) + j /\ f[i] = Encode(q[k])[j]
      BY <2>1 DEF Complete, Carries
    <3>2. k \in 1 .. Len(p) /\ p[k] = q[k] /\ g[i] = f[i]
      BY <1>2, <1>3, <2>1
    <3>3. QED
      BY <3>1, <3>2
  <2>2. CASE i \notin 1 .. Len(f)
    <3>1. i - Len(f) \in 1 .. Size + 1 /\ i = Len(f) + (i - Len(f))
      BY <1>2, <2>2, SizeType
    <3>2. g[i] = Encode(m)[i - Len(f)]
      BY <1>2, <3>1
    <3>3. Len(q) + 1 \in 1 .. Len(p) /\ (Len(q) + 1) - 1 = Len(q)
      BY <1>3
    <3>4. QED
      BY <1>3, <1>4, <3>1, <3>2, <3>3
  <2>3. QED
    BY <2>1, <2>2
<1>6. Len(g) \in Nat
  BY <1>2, SizeType
<1>7. Complete(g, p)
  BY <1>4, <1>5, <1>6 DEF Complete, Carries
<1>8. QED
  BY <1>7 DEF g, p

(* Where the pieces of the messages are, and how many messages are whole.  *)
LEMMA CarriesAt ==
    ASSUME NEW f \in Seq(Bytes), NEW q \in Seq(Messages), Carries(f, q),
           NEW k \in 1 .. Len(q), NEW j \in 1 .. Size + 1, Ends(k - 1) + j <= Len(f)
    PROVE  /\ Ends(k - 1) + j \in DOMAIN f
           /\ f[Ends(k - 1) + j] = Encode(q[k])[j]
<1>1. k - 1 \in Nat /\ k \in Nat \ {0} /\ Ends(k - 1) \in Nat /\ DOMAIN f = 1 .. Len(f)
  BY EndsAre
<1> DEFINE i == Ends(k - 1) + j
<1>2. i \in 1 .. Len(f)
  BY <1>1, SizeType
<1>3. PICK l \in 1 .. Len(q), n \in 1 .. Size + 1 :
         i = Ends(l - 1) + n /\ f[i] = Encode(q[l])[n]
  BY <1>2 DEF Carries
<1>4. l \in Nat \ {0}
  OBVIOUS
<1>5. l = k /\ n = j
  BY <1>1, <1>3, <1>4, OnePlace
<1>6. QED
  BY <1>1, <1>2, <1>3, <1>5

LEMMA WholeMessages ==
    ASSUME NEW f \in Seq(Bytes), NEW q \in Seq(Messages), Carries(f, q)
    PROVE  \E c \in 0 .. Len(q) : Ends(c) <= Len(f) /\ Len(f) < Ends(c) + Size + 1
<1>1. Len(f) \in Nat /\ Len(q) \in Nat
  OBVIOUS
<1>2. CASE Len(f) = 0
  BY <1>1, <1>2, EndsAre, SizeType
<1>3. CASE Len(f) # 0
  <2>1. PICK k \in 1 .. Len(q), j \in 1 .. Size + 1 : Len(f) = Ends(k - 1) + j
    BY <1>1, <1>3 DEF Carries
  <2>2. k - 1 \in Nat /\ k - 1 \in 0 .. Len(q) /\ k \in 0 .. Len(q) /\ (k - 1) + 1 = k
    BY <1>1
  <2>3. Ends(k - 1) \in Nat /\ Ends(k) = Ends(k - 1) + Size + 1
    BY <2>2, EndsAre
  <2>4. CASE j = Size + 1
    BY <2>1, <2>2, <2>3, <2>4, SizeType
  <2>5. CASE j # Size + 1
    BY <2>1, <2>2, <2>3, <2>5, SizeType
  <2>6. QED
    BY <2>4, <2>5
<1>4. QED
  BY <1>2, <1>3

(* c says how many of the messages of q are whole in f. *)
Whole(f, q, c) ==
    /\ Carries(f, q)
    /\ c \in 0 .. Len(q) /\ Ends(c) <= Len(f) /\ Len(f) < Ends(c) + Size + 1

LEMMA DelimitersAre ==
    ASSUME NEW f \in Seq(Bytes), NEW q \in Seq(Messages), NEW c, Whole(f, q, c)
    PROVE  Delimiters(f) = {Ends(k) : k \in 1 .. c}
<1>1. /\ DOMAIN f = 1 .. Len(f) /\ Len(f) \in Nat /\ Len(q) \in Nat /\ c \in Nat
      /\ \A k \in 1 .. Len(q) : q[k] \in Messages
  BY DEF Whole
<1>2. ASSUME NEW i \in 1 .. Len(f), f[i] = Delimiter
      PROVE  \E k \in 1 .. c : i = Ends(k)
  <2>1. PICK k \in 1 .. Len(q), j \in 1 .. Size + 1 :
           i = Ends(k - 1) + j /\ f[i] = Encode(q[k])[j]
    BY DEF Whole, Carries
  <2>2. j = Size + 1
    BY <1>1, <1>2, <2>1, Encoded
  <2>3. k - 1 \in Nat /\ (k - 1) + 1 = k /\ k \in Nat
    OBVIOUS
  <2>4. i = Ends(k)
    <3>1. k \in Nat \ {0}
      OBVIOUS
    <3>2. Ends(k) = Ends(k - 1) + (Size + 1)
      BY <3>1, NextEnd
    <3>3. i = Ends(k - 1) + (Size + 1)
      BY <2>1, <2>2
    <3>4. QED
      BY <3>2, <3>3
  <2>5. ~(c < k)
    <3>1. SUFFICES ASSUME c < k PROVE FALSE
      OBVIOUS
    <3>2. Ends(c) + Size + 1 <= Ends(k)
      BY <1>1, <2>3, <3>1, EndsAre
    <3>3. Ends(c) \in Nat /\ Ends(k) <= Len(f) /\ Ends(k) \in Nat
      BY <1>1, <2>3, <2>4, EndsAre
    <3>4. Len(f) < Ends(c) + Size + 1
      BY DEF Whole
    <3>5. QED
      BY <1>1, <3>2, <3>3, <3>4, SizeType
  <2>6. QED
    BY <1>1, <2>3, <2>4, <2>5
<1>3. ASSUME NEW k \in 1 .. c
      PROVE  Ends(k) \in 1 .. Len(f) /\ f[Ends(k)] = Delimiter
  <2>1. k \in 1 .. Len(q) /\ k \in Nat /\ k - 1 \in Nat /\ (k - 1) + 1 = k
    BY <1>1 DEF Whole
  <2>2. Ends(k) = Ends(k - 1) + (Size + 1) /\ Ends(k - 1) \in Nat
    BY <2>1, NextEnd
  <2>3. Ends(k) <= Ends(c)
    <3>1. k = c \/ k < c
      BY <1>1
    <3>2. k < c => Ends(k) + Size + 1 <= Ends(c)
      BY <1>1, <2>1, EndsAre
    <3>3. Ends(k) \in Nat /\ Ends(c) \in Nat
      BY <1>1, <2>1, EndsAre
    <3>4. QED
      BY <3>1, <3>2, <3>3, SizeType
  <2>4. Ends(k) <= Len(f) /\ Ends(k) \in Nat
    <3>1. Ends(k) \in Nat /\ Ends(c) \in Nat
      BY <1>1, <2>1, EndsAre
    <3>2. Ends(c) <= Len(f)
      BY DEF Whole
    <3>3. QED
      BY <1>1, <2>3, <3>1, <3>2
  <2>5. Size + 1 \in 1 .. Size + 1
    BY SizeType
  <2>6. f[Ends(k)] = Encode(q[k])[Size + 1]
    BY <2>1, <2>2, <2>4, <2>5, CarriesAt DEF Whole
  <2>7. QED
    BY <1>1, <2>1, <2>2, <2>4, <2>6, Encoded, SizeType
<1>4. QED
  BY <1>1, <1>2, <1>3 DEF Delimiters

LEMMA EndsCount ==
    ASSUME NEW c \in Nat
    PROVE  /\ IsFiniteSet({Ends(k) : k \in 1 .. c})
           /\ Cardinality({Ends(k) : k \in 1 .. c}) = c
<1> DEFINE S == {Ends(k) : k \in 1 .. c}
           e == [k \in 1 .. c |-> Ends(k)]
<1>1. \A k, l \in 1 .. c : Ends(k) = Ends(l) => k = l
  <2>1. ASSUME NEW k \in 1 .. c, NEW l \in 1 .. c, k < l PROVE Ends(k) # Ends(l)
    <3>1. Ends(k) + Size + 1 <= Ends(l) /\ Ends(k) \in Nat /\ Ends(l) \in Nat
      BY <2>1, EndsAre
    <3>2. QED
      BY <3>1, SizeType
  <2>2. \A k, l \in 1 .. c : k < l \/ l < k \/ k = l
    OBVIOUS
  <2>3. QED
    BY <2>1, <2>2
<1> HIDE DEF Ends
<1>2. e \in Surjection(1 .. c, S)
  BY DEF Surjection
<1>3. e \in Injection(1 .. c, S)
  BY <1>1 DEF Injection, IsInjective
<1>4. IsFiniteSet(1 .. c) /\ Cardinality(1 .. c) = c
  BY FS_Interval
<1> HIDE DEF S, e
<1>5. IsFiniteSet(S) /\ Cardinality(S) = c
  BY <1>2, <1>3, <1>4, FS_Surjection
<1>6. QED
  BY <1>5 DEF S

LEMMA EndOfIs ==
    ASSUME NEW f \in Seq(Bytes), NEW q \in Seq(Messages), NEW c, Whole(f, q, c),
           NEW k \in 1 .. c
    PROVE  EndOf(f, k) = Ends(k)
<1>1. c \in Nat /\ k \in Nat
  BY DEF Whole
<1> DEFINE D == Delimiters(f)
           count(e) == Cardinality({d \in D : d <= e})
<1>2. D = {Ends(l) : l \in 1 .. c}
  BY DelimitersAre
<1>3. ASSUME NEW l \in 1 .. c PROVE count(Ends(l)) = l
  <2>1. \A n \in 1 .. c : Ends(n) <= Ends(l) <=> n \in 1 .. l
    <3>1. ASSUME NEW n \in 1 .. c PROVE Ends(n) <= Ends(l) <=> n \in 1 .. l
      <4>1. n \in Nat /\ l \in Nat
        OBVIOUS
      <4>2. n <= l <=> Ends(n) <= Ends(l)
        BY <4>1, EndsOrder
      <4>3. QED
        BY <4>1, <4>2
    <3>2. QED
      BY <3>1
  <2>2. {d \in D : d <= Ends(l)} = {Ends(n) : n \in 1 .. l}
    <3>1. \A n \in 1 .. l : n \in 1 .. c
      BY <1>1
    <3>2. QED
      BY <1>2, <2>1, <3>1
  <2>3. l \in Nat
    OBVIOUS
  <2>4. QED
    BY <2>2, <2>3, EndsCount
<1>4. Ends(k) \in D /\ count(Ends(k)) = k
  BY <1>2, <1>3
<1>5. \A e \in D : count(e) = k => e = Ends(k)
  BY <1>2, <1>3
<1>6. EndOf(f, k) = CHOOSE e \in D : count(e) = k
  BY DEF EndOf
<1> HIDE DEF D, count
<1>7. QED
  BY <1>4, <1>5, <1>6

(* The complete lines of a text are the messages that are whole in it.     *)
LEMMA LinesAre ==
    ASSUME NEW f \in Seq(Bytes), NEW q \in Seq(Messages), NEW c, Whole(f, q, c)
    PROVE  Lines(f) = SubSeq(q, 1, c)
<1>1. /\ c \in Nat /\ Len(q) \in Nat /\ c <= Len(q) /\ Len(f) \in Nat
      /\ \A k \in 1 .. c : k \in 1 .. Len(q) /\ q[k] \in Messages
  BY DEF Whole
<1>2. Cardinality(Delimiters(f)) = c
  BY <1>1, DelimitersAre, EndsCount
<1>3. ASSUME NEW k \in 1 .. c
      PROVE  Decode(SubSeq(f, StartOf(f, k), EndOf(f, k) - 1)) = q[k]
  <2>1. /\ k \in Nat \ {0} /\ k - 1 \in Nat /\ Ends(k - 1) \in Nat
        /\ Ends(k) = Ends(k - 1) + (Size + 1)
    BY NextEnd
  <2>2. StartOf(f, k) = Ends(k - 1) + 1
    <3>1. CASE k = 1
      BY <3>1, EndsAre DEF StartOf
    <3>2. CASE k # 1
      <4>1. k - 1 \in 1 .. c
        BY <1>1, <3>2
      <4>2. EndOf(f, k - 1) = Ends(k - 1)
        BY <4>1, EndOfIs
      <4>3. QED
        BY <3>2, <4>2 DEF StartOf
    <3>3. QED
      BY <3>1, <3>2
  <2>3. EndOf(f, k) - 1 = Ends(k - 1) + Size
    BY <2>1, EndOfIs, SizeType
  <2>4. Ends(k) <= Len(f)
    <3>1. k \in Nat /\ c \in Nat /\ k <= c
      BY <1>1
    <3>2. Ends(k) \in Nat /\ Ends(c) \in Nat /\ Ends(k) <= Ends(c)
      BY <3>1, EndsOrder
    <3>3. Ends(c) <= Len(f)
      BY DEF Whole
    <3>4. QED
      BY <1>1, <3>2, <3>3
  <2>5. ASSUME NEW j \in 1 .. Size
        PROVE  f[Ends(k - 1) + j] = <<q[k], j>>
    <3>1. j \in 1 .. Size + 1 /\ Ends(k - 1) + j <= Len(f)
      BY <1>1, <2>1, <2>4, SizeType
    <3>2. f[Ends(k - 1) + j] = Encode(q[k])[j]
      BY <1>1, <3>1, CarriesAt DEF Whole
    <3>3. QED
      BY <1>1, <3>2, Encoded
  <2>6. SubSeq(f, StartOf(f, k), EndOf(f, k) - 1) = Body(q[k])
    <3> DEFINE a == Ends(k - 1)
    <3>1. a \in Nat /\ \A j \in 1 .. Size : f[a + j] = <<q[k], j>>
      BY <2>1, <2>5
    <3> HIDE DEF a
    <3>2. SubSeq(f, a + 1, a + Size) = [j \in 1 .. Size |-> f[a + j]]
      BY <3>1, SizeType
    <3>3. [j \in 1 .. Size |-> f[a + j]] = Body(q[k])
      BY <3>1 DEF Body
    <3>4. QED
      BY <2>2, <2>3, <3>2, <3>3 DEF a
  <2>7. QED
    BY <1>1, <2>6, BodyTells
<1>4. Lines(f) = [k \in 1 .. c |-> q[k]]
  BY <1>2, <1>3 DEF Lines
<1>5. SubSeq(q, 1, c) = [k \in 1 .. c |-> q[k]]
  BY <1>1
<1>6. QED
  BY <1>4, <1>5

(* What the reader takes off the front: the first of several messages.     *)
LEMMA FirstLine ==
    ASSUME NEW f \in Seq(Bytes), NEW q \in Seq(Messages), Carries(f, q),
           Delimiters(f) # {}
    PROVE  /\ FirstDelimiter(f) = Size + 1 /\ Len(f) >= Size + 1
           /\ Len(q) >= 1 /\ q[1] \in Messages
           /\ Decode(First(f, FirstDelimiter(f) - 1)) = q[1]
<1>1. PICK c \in 0 .. Len(q) : Whole(f, q, c)
  BY WholeMessages DEF Whole
<1>2. /\ Delimiters(f) = {Ends(k) : k \in 1 .. c} /\ c \in Nat /\ c >= 1
      /\ Len(q) \in Nat /\ Len(f) \in Nat
  <2>1. Delimiters(f) = {Ends(k) : k \in 1 .. c}
    BY <1>1, DelimitersAre
  <2>2. QED
    BY <2>1
<1>3. Ends(1) = Size + 1
  BY EndsAre, NextEnd, SizeType
<1>4. \A k \in 1 .. c : k # 1 => Ends(1) < Ends(k)
  <2>1. ASSUME NEW k \in 1 .. c, k # 1 PROVE Ends(1) < Ends(k)
    <3>0. 1 \in Nat /\ k \in Nat /\ 1 < k
      BY <2>1
    <3>1. Ends(1) + Size + 1 <= Ends(k) /\ Ends(k) \in Nat /\ Ends(1) \in Nat
      BY <3>0, EndsOrder
    <3>2. QED
      BY <3>1, SizeType
  <2>2. QED
    BY <2>1
<1>5. Ends(1) \in Delimiters(f) /\ \A d \in Delimiters(f) : Ends(1) <= d
  <2>1. 1 \in 1 .. c /\ Ends(1) \in Nat
    BY <1>2, <1>3, SizeType
  <2>2. ASSUME NEW k \in 1 .. c PROVE Ends(k) \in Nat
    <3>1. k \in Nat
      BY <1>2
    <3>2. QED
      BY <3>1, EndsAre
  <2>3. QED
    BY <1>2, <1>4, <2>1, <2>2
<1>6. \A d \in Delimiters(f) : d \in Nat
  BY DEF Delimiters
<1>7. FirstDelimiter(f) = Ends(1)
  BY <1>5, <1>6 DEF FirstDelimiter
<1>8. Ends(1) <= Len(f)
  BY <1>5 DEF Delimiters
<1>9. \A j \in 1 .. Size : f[j] = <<q[1], j>>
  <2>1. ASSUME NEW j \in 1 .. Size PROVE f[j] = <<q[1], j>>
    <3>0. Ends(1 - 1) = 0
      BY EndsAre
    <3>1. j \in 1 .. Size + 1 /\ 1 \in 1 .. Len(q) /\ Ends(1 - 1) = 0 /\ j <= Len(f)
      BY <1>2, <1>3, <1>8, <3>0, SizeType
    <3>2. f[Ends(1 - 1) + j] = Encode(q[1])[j]
      BY <3>1, CarriesAt, SizeType
    <3>3. QED
      BY <3>1, <3>2, Encoded
  <2>2. QED
    BY <2>1
<1>10. First(f, Size) = Body(q[1])
  <2>1. SubSeq(f, 1, Size) = [j \in 1 .. Size |-> f[j]]
    BY SizeType
  <2>2. QED
    BY <1>9, <2>1 DEF First, Body
<1>11. FirstDelimiter(f) - 1 = Size
  BY <1>3, <1>7, SizeType
<1>12. q[1] \in Messages
  BY <1>2
<1>13. QED
  BY <1>2, <1>3, <1>7, <1>8, <1>10, <1>11, <1>12, BodyTells

-----------------------------------------------------------------------------
(* Cutting a text in two. *)

LEMMA SplitAt ==
    ASSUME NEW f \in Seq(Bytes), NEW n \in 0 .. Len(f)
    PROVE  /\ First(f, n) \in Seq(Bytes) /\ After(f, n) \in Seq(Bytes)
           /\ Len(First(f, n)) = n /\ Len(After(f, n)) = Len(f) - n
           /\ \A i \in 1 .. Len(f) - n : After(f, n)[i] = f[n + i]
           /\ f = First(f, n) \o After(f, n)
<1>1. First(f, n) \in Seq(Bytes) /\ Len(First(f, n)) = n
  BY DEF First
<1>2. After(f, n) \in Seq(Bytes) /\ Len(After(f, n)) = Len(f) - n
  BY DEF After
<1>3. \A i \in 1 .. Len(f) - n : After(f, n)[i] = f[n + i]
  BY DEF After
<1>4. f = First(f, n) \o After(f, n)
  <2>1. SubSeq(f, 1, n) \o SubSeq(f, n + 1, Len(f)) = SubSeq(f, 1, Len(f))
    <3>1. 1 \in 1 .. Len(f) + 1 /\ n \in 1 - 1 .. Len(f) /\ Len(f) \in n .. Len(f)
      OBVIOUS
    <3>2. QED
      BY <3>1, ConcatAdjacentSubSeq
  <2>2. SubSeq(f, 1, Len(f)) = f
    BY SubSeqFull
  <2>3. QED
    BY <2>1, <2>2 DEF First, After
<1>5. QED
  BY <1>1, <1>2, <1>3, <1>4

LEMMA Joined ==
    ASSUME NEW f \in Seq(Bytes), NEW g \in Seq(Bytes), NEW h \in Seq(Bytes)
    PROVE  /\ (f \o g) \o h = f \o (g \o h) /\ f \o g \in Seq(Bytes)
           /\ f \o <<>> = f
OBVIOUS

LEMMA CutFront ==
    ASSUME NEW f \in Seq(Bytes), NEW g \in Seq(Bytes), NEW n \in 0 .. Len(f)
    PROVE  After(f \o g, n) = After(f, n) \o g
<1> DEFINE h == f \o g
           a == After(f, n)
<1>1. /\ h \in Seq(Bytes) /\ Len(h) = Len(f) + Len(g) /\ Len(f) \in Nat /\ Len(g) \in Nat
      /\ \A i \in 1 .. Len(f) + Len(g) : h[i] = IF i <= Len(f) THEN f[i] ELSE g[i - Len(f)]
  BY ConcatProperties
<1>2. a \in Seq(Bytes) /\ Len(a) = Len(f) - n /\ \A i \in 1 .. Len(f) - n : a[i] = f[n + i]
  BY SplitAt
<1>3. /\ a \o g \in Seq(Bytes) /\ Len(a \o g) = Len(f) - n + Len(g)
      /\ \A i \in 1 .. Len(f) - n + Len(g) :
            (a \o g)[i] = IF i <= Len(f) - n THEN a[i] ELSE g[i - (Len(f) - n)]
  <2> HIDE DEF a
  <2>1. /\ a \o g \in Seq(Bytes) /\ Len(a \o g) = Len(a) + Len(g)
        /\ \A i \in 1 .. Len(a) + Len(g) :
              (a \o g)[i] = IF i <= Len(a) THEN a[i] ELSE g[i - Len(a)]
    BY <1>2, ConcatProperties
  <2>2. Len(a) = Len(f) - n
    BY <1>2
  <2>3. QED
    BY <2>1, <2>2
<1> HIDE DEF h, a
<1>4. n \in 0 .. Len(h)
  BY <1>1
<1>5. /\ After(h, n) \in Seq(Bytes) /\ Len(After(h, n)) = Len(f) + Len(g) - n
      /\ \A i \in 1 .. Len(f) + Len(g) - n : After(h, n)[i] = h[n + i]
  <2>1. /\ After(h, n) \in Seq(Bytes) /\ Len(After(h, n)) = Len(h) - n
        /\ \A i \in 1 .. Len(h) - n : After(h, n)[i] = h[n + i]
    BY <1>1, <1>4, SplitAt
  <2>2. Len(h) = Len(f) + Len(g)
    BY <1>1
  <2>3. QED
    BY <2>1, <2>2
<1>6. ASSUME NEW i \in 1 .. Len(f) + Len(g) - n PROVE After(h, n)[i] = (a \o g)[i]
  <2>1. /\ n + i \in 1 .. Len(f) + Len(g) /\ i \in 1 .. Len(f) - n + Len(g)
        /\ (n + i <= Len(f) <=> i <= Len(f) - n) /\ n + i - Len(f) = i - (Len(f) - n)
    BY <1>1
  <2>2. i <= Len(f) - n => i \in 1 .. Len(f) - n
    BY <1>1
  <2>3. QED
    BY <1>1, <1>2, <1>3, <1>5, <2>1, <2>2
<1>7. Len(After(h, n)) = Len(a \o g) /\ \A i \in 1 .. Len(After(h, n)) : After(h, n)[i] = (a \o g)[i]
  BY <1>1, <1>3, <1>5, <1>6
<1>8. After(h, n) = a \o g
  BY <1>3, <1>5, <1>7, SeqEqual
<1>9. QED
  BY <1>8 DEF h, a

(* Without its first message a text carries the rest. *)
LEMMA CarriesRest ==
    ASSUME NEW f \in Seq(Bytes), NEW q \in Seq(Messages), Carries(f, q),
           Len(f) >= Size + 1, Len(q) >= 1
    PROVE  /\ Tail(q) \in Seq(Messages) /\ Carries(After(f, Size + 1), Tail(q))
           /\ Complete(f, q) => Complete(After(f, Size + 1), Tail(q))
<1> DEFINE g == After(f, Size + 1)
           p == Tail(q)
<1>1. /\ Len(f) \in Nat /\ Len(g) = Len(f) - (Size + 1) /\ Len(g) \in Nat
      /\ \A i \in 1 .. Len(g) : g[i] = f[Size + 1 + i]
  <2>1. Size + 1 \in 0 .. Len(f)
    BY SizeType
  <2>2. Len(g) = Len(f) - (Size + 1) /\ \A i \in 1 .. Len(f) - (Size + 1) : g[i] = f[Size + 1 + i]
    BY <2>1, SplitAt
  <2>3. QED
    BY <2>1, <2>2, SizeType
<1>2. /\ p \in Seq(Messages) /\ Len(q) \in Nat /\ Len(p) = Len(q) - 1 /\ Len(p) \in Nat
      /\ \A k \in 1 .. Len(p) : p[k] = q[k + 1]
  OBVIOUS
<1> HIDE DEF g, p
<1>3. Ends(Len(q)) = Ends(Len(p)) + (Size + 1) /\ Ends(Len(p)) \in Nat
  <2>1. Len(q) \in Nat \ {0}
    BY <1>2
  <2>2. QED
    BY <1>2, <2>1, NextEnd
<1>4. Len(g) <= Ends(Len(p)) /\ (Len(f) = Ends(Len(q)) => Len(g) = Ends(Len(p)))
  <2>1. Len(f) <= Ends(Len(q))
    BY DEF Carries
  <2>2. QED
    BY <1>1, <1>3, <2>1, SizeType
<1>5. ASSUME NEW i \in 1 .. Len(g)
      PROVE  \E k \in 1 .. Len(p), j \in 1 .. Size + 1 :
                i = Ends(k - 1) + j /\ g[i] = Encode(p[k])[j]
  <2>1. Size + 1 + i \in 1 .. Len(f)
    BY <1>1, SizeType
  <2>2. PICK k \in 1 .. Len(q), j \in 1 .. Size + 1 :
           Size + 1 + i = Ends(k - 1) + j /\ f[Size + 1 + i] = Encode(q[k])[j]
    BY <2>1 DEF Carries
  <2>3. k # 1
    <3>1. Ends(1 - 1) = 0
      BY EndsAre
    <3>2. QED
      BY <1>1, <2>2, <3>1, SizeType
  <2>4. k - 1 \in 1 .. Len(p) /\ (k - 1) + 1 = k /\ k - 1 \in Nat \ {0}
    BY <1>2, <2>3
  <2>5. Ends(k - 1) = Ends((k - 1) - 1) + (Size + 1) /\ Ends((k - 1) - 1) \in Nat
    BY <2>4, NextEnd
  <2>6. i = Ends((k - 1) - 1) + j
    <3>1. \A a \in Nat : Size + 1 + i = a + (Size + 1) + j => i = a + j
      BY <1>1, SizeType
    <3>2. QED
      BY <2>2, <2>5, <3>1
  <2>7. g[i] = Encode(p[k - 1])[j]
    BY <1>1, <1>2, <2>2, <2>4
  <2>8. QED
    BY <2>4, <2>6, <2>7
<1>6. Carries(g, p) /\ (Complete(f, q) => Complete(g, p))
  BY <1>4, <1>5 DEF Carries, Complete
<1>7. QED
  BY <1>2, <1>6 DEF g, p

-----------------------------------------------------------------------------
(* The invariant. *)

LEMMA InitInv == Init => IInv
<1> SUFFICES ASSUME Init PROVE IInv
  OBVIOUS
<1>1. TypeOK /\ TakingTurns
  BY DEF Init, TypeOK, TakingTurns
<1>2. <<>> \in Seq(Messages) /\ Len(<<>>) = 0 /\ Stream = <<>>
  BY DEF Init, Stream
<1>3. Complete(Stream, <<>>)
  BY <1>2, EndsAre DEF Complete, Carries
<1>4. Framed
  BY <1>2, <1>3 DEF Framed, Init, Complete
<1>5. QED
  BY <1>1, <1>4 DEF IInv

(* What the invariant says in a state, as facts for the steps below.       *)
LEMMA StreamType ==
    ASSUME TypeOK
    PROVE  /\ Stream \in Seq(Bytes) /\ buffer \in Seq(Bytes) /\ wire \in Seq(Bytes)
           /\ \A s \in Senders : portion[s] \in Seq(Bytes)
BY DEF TypeOK, Stream

LEMMA StartSendInv ==
    ASSUME IInv, NEW s \in Senders, NEW m \in Messages, StartSend(s, m)
    PROVE  IInv'
<1> USE DEF IInv
<1>1. sending = {} /\ sending' = {s}
  BY DEF StartSend, LockFree
<1>2. Encode(m) \in Seq(Bytes) /\ Len(Encode(m)) = Size + 1
  BY Encoded
<1>3. portion' = [portion EXCEPT ![s] = Encode(m)] /\ portion'[s] = Encode(m)
  BY DEF StartSend, TypeOK
<1>4. TypeOK'
  BY <1>1, <1>2, <1>3 DEF StartSend, TypeOK
<1>5. TakingTurns'
  BY <1>1, <1>2, <1>3, SizeType DEF TakingTurns
<1>6. Stream' = Stream /\ up' = up
  BY DEF StartSend, Stream
<1>7. PICK q \in Seq(Messages) :
         Carries(Stream, q) /\ (up /\ sending = {} => Complete(Stream, q))
  BY DEF Framed
<1>8. CASE ~up
  <2>1. Carries(Stream', q) /\ ~up'
    BY <1>6, <1>7, <1>8
  <2>2. QED
    BY <1>4, <1>5, <2>1 DEF Framed
<1>9. CASE up
  <2>1. Complete(Stream \o Encode(m), Append(q, m)) /\ Append(q, m) \in Seq(Messages)
    BY <1>1, <1>7, <1>9, StreamType, CarriesMore
  <2>2. Carries(Stream, Append(q, m))
    BY <1>2, <2>1, StreamType, CarriesPrefix DEF Complete
  <2>3. Complete(Stream' \o portion'[s], Append(q, m)) /\ Carries(Stream', Append(q, m))
    BY <1>3, <1>6, <2>1, <2>2
  <2>4. \A r \in sending' : Complete(Stream' \o portion'[r], Append(q, m))
    BY <1>1, <2>3
  <2>5. ~(sending' = {})
    BY <1>1
  <2>6. QED
    BY <1>4, <1>5, <2>1, <2>3, <2>4, <2>5 DEF Framed
<1>10. QED
  BY <1>4, <1>5, <1>8, <1>9

LEMMA SendSomeInv ==
    ASSUME IInv, NEW s \in Senders, SendSome(s)
    PROVE  IInv'
<1> USE DEF IInv
<1>1. PICK n \in 1 .. Len(portion[s]) :
         /\ wire' = wire \o First(portion[s], n)
         /\ portion' = [portion EXCEPT ![s] = After(portion[s], n)]
  BY DEF SendSome
<1>2. s \in sending /\ up /\ up' = up /\ sending' = sending /\ buffer' = buffer
  BY DEF SendSome
<1>3. sending = {s}
  BY <1>2 DEF TakingTurns
<1> DEFINE f == First(portion[s], n)
           a == After(portion[s], n)
<1>4. portion[s] \in Seq(Bytes) /\ Len(portion[s]) \in Nat /\ n \in 0 .. Len(portion[s])
  BY StreamType
<1>5. /\ f \in Seq(Bytes) /\ a \in Seq(Bytes) /\ Len(a) = Len(portion[s]) - n
      /\ portion[s] = f \o a
  BY <1>4, SplitAt
<1> HIDE DEF f, a
<1>6. portion' = [portion EXCEPT ![s] = a] /\ portion'[s] = a /\ wire' = wire \o f
  BY <1>1 DEF f, a, TypeOK
<1>7. TypeOK'
  <2>1. wire' \in Seq(Bytes)
    BY <1>5, <1>6, StreamType, Joined
  <2>2. portion' \in [Senders -> Seq(Bytes)]
    BY <1>5, <1>6 DEF TypeOK
  <2>3. QED
    BY <2>1, <2>2 DEF SendSome, TypeOK
<1>8. TakingTurns'
  BY <1>2, <1>3, <1>4, <1>5, <1>6, SizeType DEF TakingTurns
<1>9. Stream' = Stream \o f /\ Stream \in Seq(Bytes) /\ Stream' \in Seq(Bytes)
  <2>1. buffer \in Seq(Bytes) /\ wire \in Seq(Bytes)
    BY StreamType
  <2>2. (buffer \o wire) \o f = buffer \o (wire \o f) /\ buffer \o wire \in Seq(Bytes)
    BY <1>5, <2>1, Joined, SMTT(30)
  <2>3. (buffer \o wire) \o f \in Seq(Bytes)
    BY <1>5, <2>2, Joined
  <2>4. QED
    BY <1>2, <1>6, <2>2, <2>3 DEF Stream
<1>10. Stream' \o a = Stream \o portion[s]
  <2>1. (Stream \o f) \o a = Stream \o (f \o a)
    BY <1>5, <1>9, Joined, SMTT(30)
  <2>2. QED
    BY <1>5, <1>9, <2>1
<1>11. PICK q \in Seq(Messages) : Complete(Stream \o portion[s], q)
  BY <1>2 DEF Framed
<1>12. Complete(Stream' \o portion'[s], q)
  BY <1>6, <1>10, <1>11
<1>13. Carries(Stream', q)
  BY <1>5, <1>6, <1>9, <1>12, CarriesPrefix DEF Complete
<1>14. Framed'
  BY <1>2, <1>3, <1>12, <1>13 DEF Framed
<1>15. QED
  BY <1>7, <1>8, <1>14

LEMMA EndSendInv ==
    ASSUME IInv, NEW s \in Senders, EndSend(s)
    PROVE  IInv'
<1> USE DEF IInv
<1>1. /\ s \in sending /\ sending' = sending \ {s} /\ up' = up
      /\ portion' = [portion EXCEPT ![s] = <<>>] /\ wire' = wire /\ buffer' = buffer
  BY DEF EndSend
<1>2. sending = {s} /\ sending' = {}
  BY <1>1 DEF TakingTurns
<1>3. TypeOK'
  BY <1>1 DEF EndSend, TypeOK
<1>4. TakingTurns'
  BY <1>2 DEF TakingTurns
<1>5. Stream' = Stream
  BY <1>1 DEF Stream
<1>6. PICK q \in Seq(Messages) :
         Carries(Stream, q) /\ (up => Complete(Stream \o portion[s], q))
  BY <1>1 DEF Framed
<1>7. up => Complete(Stream, q)
  <2>1. up => portion[s] = <<>>
    BY DEF EndSend
  <2>2. Stream \o <<>> = Stream
    BY StreamType, Joined
  <2>3. QED
    BY <1>6, <2>1, <2>2
<1>8. Framed'
  BY <1>1, <1>2, <1>5, <1>6, <1>7 DEF Framed
<1>9. QED
  BY <1>3, <1>4, <1>8

(* The reader's receiving moves bytes from the wire to the buffer. *)
LEMMA RecvSame ==
    ASSUME TypeOK, Recv
    PROVE  Stream' = Stream /\ wire' \in Seq(Bytes) /\ buffer' \in Seq(Bytes)
<1>1. PICK n \in 1 .. Len(wire) : buffer' = buffer \o First(wire, n) /\ wire' = After(wire, n)
  BY DEF Recv
<1>2. n \in 0 .. Len(wire) /\ wire \in Seq(Bytes) /\ buffer \in Seq(Bytes)
  BY StreamType
<1>3. /\ First(wire, n) \in Seq(Bytes) /\ After(wire, n) \in Seq(Bytes)
      /\ wire = First(wire, n) \o After(wire, n)
  BY <1>2, SplitAt
<1>4. (buffer \o First(wire, n)) \o After(wire, n) = buffer \o wire
  <2>1. (buffer \o First(wire, n)) \o After(wire, n) = buffer \o (First(wire, n) \o After(wire, n))
    BY <1>2, <1>3, Joined, SMTT(30)
  <2>2. QED
    BY <1>3, <2>1
<1>5. buffer' \in Seq(Bytes)
  BY <1>1, <1>2, <1>3, Joined
<1>6. QED
  BY <1>1, <1>3, <1>4, <1>5 DEF Stream

LEMMA RecvInv ==
    ASSUME IInv, Recv
    PROVE  IInv'
<1> USE DEF IInv
<1>1. /\ Stream' = Stream /\ wire' \in Seq(Bytes) /\ buffer' \in Seq(Bytes)
  BY RecvSame
<1>2. unsent' = unsent /\ sending' = sending /\ portion' = portion /\ up' = up /\ returned' = returned
  BY DEF Recv, senderVars
<1>3. TypeOK' /\ TakingTurns'
  BY <1>1, <1>2 DEF TypeOK, TakingTurns
<1>4. Framed'
  BY <1>1, <1>2 DEF Framed
<1>5. QED
  BY <1>3, <1>4

LEMMA RecvEndInv ==
    ASSUME IInv, RecvEnd
    PROVE  IInv'
<1> USE DEF IInv
<1>1. /\ unsent' = unsent /\ sending' = sending /\ portion' = portion /\ up' = up
      /\ wire' = wire /\ buffer' = buffer /\ returned' = End
  BY DEF RecvEnd, senderVars
<1>2. TypeOK' /\ TakingTurns'
  BY <1>1 DEF TypeOK, TakingTurns
<1>3. Stream' = Stream
  BY <1>1 DEF Stream
<1>4. Framed'
  BY <1>1, <1>3 DEF Framed
<1>5. QED
  BY <1>2, <1>4

(* A whole line in the buffer is the first message of the stream. *)
LEMMA ReturnFirst ==
    ASSUME TypeOK, NEW q \in Seq(Messages), Carries(Stream, q), ReturnMessage
    PROVE  /\ returned' = q[1] /\ q[1] \in Messages /\ Len(q) >= 1
           /\ buffer' \in Seq(Bytes) /\ Len(buffer) >= Size + 1
           /\ Stream' = After(Stream, Size + 1) /\ wire' = wire
<1>1. buffer \in Seq(Bytes) /\ wire \in Seq(Bytes)
  BY StreamType
<1>2. Carries(buffer, q) /\ Delimiters(buffer) # {}
  BY <1>1, CarriesPrefix DEF Stream, ReturnMessage, NeedsMore
<1>3. /\ FirstDelimiter(buffer) = Size + 1 /\ Len(buffer) >= Size + 1
      /\ Len(q) >= 1 /\ q[1] \in Messages
      /\ Decode(First(buffer, FirstDelimiter(buffer) - 1)) = q[1]
  BY <1>1, <1>2, FirstLine
<1>4. /\ returned' = Decode(First(buffer, FirstDelimiter(buffer) - 1))
      /\ buffer' = After(buffer, FirstDelimiter(buffer)) /\ wire' = wire
  BY DEF ReturnMessage, Rest
<1>5. buffer' = After(buffer, Size + 1)
  BY <1>3, <1>4
<1>6. Size + 1 \in 0 .. Len(buffer)
  BY <1>1, <1>3, SizeType
<1>7. After(buffer, Size + 1) \in Seq(Bytes)
  BY <1>1, <1>6, SplitAt
<1>8. After(buffer, Size + 1) \o wire = After(buffer \o wire, Size + 1)
  BY <1>1, <1>6, CutFront
<1>9. QED
  BY <1>3, <1>4, <1>5, <1>7, <1>8 DEF Stream

LEMMA ReturnMessageInv ==
    ASSUME IInv, ReturnMessage
    PROVE  IInv'
<1> USE DEF IInv
<1>1. PICK q \in Seq(Messages) :
         /\ Carries(Stream, q)
         /\ up /\ sending = {} => Complete(Stream, q)
         /\ up => \A s \in sending : Complete(Stream \o portion[s], q)
  BY DEF Framed
<1>2. /\ returned' \in Messages /\ Len(q) >= 1 /\ buffer' \in Seq(Bytes)
      /\ Len(buffer) >= Size + 1 /\ Stream' = After(Stream, Size + 1) /\ wire' = wire
  BY <1>1, ReturnFirst
<1>3. unsent' = unsent /\ sending' = sending /\ portion' = portion /\ up' = up
  BY DEF ReturnMessage, senderVars
<1>4. TypeOK' /\ TakingTurns'
  BY <1>2, <1>3 DEF TypeOK, TakingTurns
<1>5. /\ Stream \in Seq(Bytes) /\ Len(Stream) >= Size + 1 /\ Size + 1 \in 0 .. Len(Stream)
  <2>1. Len(Stream) = Len(buffer) + Len(wire) /\ Len(buffer) \in Nat /\ Len(wire) \in Nat
    BY StreamType DEF Stream
  <2>2. QED
    BY <1>2, <2>1, StreamType, SizeType
<1>6. /\ Tail(q) \in Seq(Messages) /\ Carries(Stream', Tail(q))
      /\ Complete(Stream, q) => Complete(Stream', Tail(q))
  BY <1>1, <1>2, <1>5, CarriesRest
<1>7. ASSUME up, NEW s \in sending
      PROVE  Complete(Stream' \o portion[s], Tail(q))
  <2>1. portion[s] \in Seq(Bytes)
    BY DEF TypeOK
  <2> DEFINE g == Stream \o portion[s]
  <2>2. g \in Seq(Bytes) /\ Len(g) >= Size + 1
    BY <1>5, <2>1, SizeType
  <2>3. Complete(g, q) /\ Carries(g, q)
    BY <1>1, <1>7 DEF Complete
  <2> HIDE DEF g
  <2>4. Complete(After(g, Size + 1), Tail(q))
    BY <1>2, <2>2, <2>3, CarriesRest
  <2>5. After(g, Size + 1) = Stream' \o portion[s]
    BY <1>2, <1>5, <2>1, CutFront DEF g
  <2>6. QED
    BY <2>4, <2>5
<1>8. Framed'
  BY <1>1, <1>3, <1>6, <1>7 DEF Framed
<1>9. QED
  BY <1>4, <1>8

(* What is lost when the connection ends is the end of the stream. *)
LEMMA LinkEndsCuts ==
    ASSUME TypeOK, LinkEnds
    PROVE  /\ wire' \in Seq(Bytes) /\ Stream' \in Seq(Bytes)
           /\ \E g \in Seq(Bytes) : Stream = Stream' \o g
<1>1. PICK n \in 0 .. Len(wire) : wire' = First(wire, n)
  BY DEF LinkEnds
<1>2. buffer \in Seq(Bytes) /\ wire \in Seq(Bytes) /\ buffer' = buffer
  BY StreamType DEF LinkEnds
<1>3. /\ First(wire, n) \in Seq(Bytes) /\ After(wire, n) \in Seq(Bytes)
      /\ wire = First(wire, n) \o After(wire, n)
  BY <1>2, SplitAt
<1>4. /\ buffer \o wire = (buffer \o First(wire, n)) \o After(wire, n)
      /\ buffer \o First(wire, n) \in Seq(Bytes)
  <2>1. /\ (buffer \o First(wire, n)) \o After(wire, n) = buffer \o (First(wire, n) \o After(wire, n))
        /\ buffer \o First(wire, n) \in Seq(Bytes)
    BY <1>2, <1>3, Joined, SMTT(30)
  <2>2. QED
    BY <1>3, <2>1
<1>5. QED
  BY <1>1, <1>2, <1>3, <1>4 DEF Stream

LEMMA LinkEndsInv ==
    ASSUME IInv, LinkEnds
    PROVE  IInv'
<1> USE DEF IInv
<1>1. /\ unsent' = unsent /\ sending' = sending /\ portion' = portion /\ up' = FALSE
      /\ buffer' = buffer /\ returned' = returned
  BY DEF LinkEnds, senderVars
<1>2. wire' \in Seq(Bytes) /\ Stream' \in Seq(Bytes)
  BY LinkEndsCuts
<1>3. PICK g \in Seq(Bytes) : Stream = Stream' \o g
  BY LinkEndsCuts
<1>4. TypeOK' /\ TakingTurns'
  BY <1>1, <1>2 DEF TypeOK, TakingTurns
<1>5. PICK q \in Seq(Messages) : Carries(Stream, q)
  BY DEF Framed
<1>6. Carries(Stream', q)
  BY <1>2, <1>3, <1>5, CarriesPrefix
<1>7. Framed'
  BY <1>1, <1>6 DEF Framed
<1>8. QED
  BY <1>4, <1>7

LEMMA StutterInv ==
    ASSUME IInv, UNCHANGED vars
    PROVE  IInv'
<1>1. /\ unsent' = unsent /\ sending' = sending /\ portion' = portion /\ up' = up
      /\ wire' = wire /\ buffer' = buffer /\ returned' = returned
  BY DEF vars, senderVars
<1>2. Stream' = Stream
  BY <1>1 DEF Stream
<1>3. TypeOK' /\ TakingTurns'
  BY <1>1 DEF IInv, TypeOK, TakingTurns
<1>4. Framed'
  BY <1>1, <1>2 DEF IInv, Framed
<1>5. QED
  BY <1>3, <1>4 DEF IInv

LEMMA NextInv == IInv /\ [Next]_vars => IInv'
<1> SUFFICES ASSUME IInv, [Next]_vars PROVE IInv'
  OBVIOUS
<1>1. ASSUME NEW s \in Senders, SendStep(s) PROVE IInv'
  BY <1>1, SendSomeInv, EndSendInv DEF SendStep
<1>2. ASSUME NEW s \in Senders, NEW m \in Messages, StartSend(s, m) PROVE IInv'
  BY <1>2, StartSendInv
<1>3. CASE ReadStep
  BY <1>3, RecvInv, RecvEndInv, ReturnMessageInv DEF ReadStep
<1>4. CASE LinkEnds
  BY <1>4, LinkEndsInv
<1>5. CASE UNCHANGED vars
  BY <1>5, StutterInv
<1>6. QED
  BY <1>1, <1>2, <1>3, <1>4, <1>5 DEF Next

LEMMA Invariance == Spec => []IInv
<1>1. QED
  BY InitInv, NextInv, PTL DEF Spec

(* Type correctness, which says that a message that does not decode is     *)
(* never read: neither a second sender nor a cut of the stream mixes the   *)
(* bytes of a line, for any senders, messages, sizes and buffers.          *)
THEOREM TypeCorrect == Spec => []TypeOK
<1>1. IInv => TypeOK
  BY DEF IInv
<1>2. QED
  BY <1>1, Invariance, PTL

-----------------------------------------------------------------------------
(* The channel of whole messages. *)

LEMMA LinesOf ==
    ASSUME NEW f \in Seq(Bytes), NEW q \in Seq(Messages), Carries(f, q)
    PROVE  \E c \in 0 .. Len(q) : Whole(f, q, c) /\ Lines(f) = SubSeq(q, 1, c)
<1>1. PICK c \in 0 .. Len(q) : Whole(f, q, c)
  BY WholeMessages DEF Whole
<1>2. QED
  BY <1>1, LinesAre

(* A longer text has no fewer whole messages. *)
LEMMA WholeOrder ==
    ASSUME NEW f \in Seq(Bytes), NEW g \in Seq(Bytes), NEW q \in Seq(Messages),
           NEW c, NEW d, Whole(f, q, c), Whole(g, q, d), Len(f) <= Len(g)
    PROVE  c <= d
<1>1. c \in Nat /\ d \in Nat /\ Len(f) \in Nat /\ Len(g) \in Nat
  BY DEF Whole
<1>2. Ends(c) <= Len(f) /\ Len(g) < Ends(d) + Size + 1
  BY DEF Whole
<1>3. SUFFICES ASSUME d < c PROVE FALSE
  BY <1>1
<1>4. Ends(c) \in Nat /\ Ends(d) \in Nat /\ Ends(d) + Size + 1 <= Ends(c)
  BY <1>1, <1>3, EndsOrder
<1>5. QED
  BY <1>1, <1>2, <1>4, SizeType

LEMMA Begins ==
    ASSUME NEW q \in Seq(Messages), NEW c \in 0 .. Len(q)
    PROVE  /\ Len(SubSeq(q, 1, c)) = c
           /\ \A d \in 0 .. c : SubSeq(SubSeq(q, 1, c), 1, d) = SubSeq(q, 1, d)
           /\ c + 1 <= Len(q) => /\ q[c + 1] \in Messages
                               /\ SubSeq(q, 1, c + 1) = Append(SubSeq(q, 1, c), q[c + 1])
           /\ c >= 1 => /\ SubSeq(q, 1, c) # <<>> /\ Head(SubSeq(q, 1, c)) = q[1]
                       /\ Tail(SubSeq(q, 1, c)) = SubSeq(Tail(q), 1, c - 1)
<1>1. Len(SubSeq(q, 1, c)) = c
  OBVIOUS
<1>2. \A d \in 0 .. c : SubSeq(SubSeq(q, 1, c), 1, d) = SubSeq(q, 1, d)
  OBVIOUS
<1>3. c + 1 <= Len(q) => /\ q[c + 1] \in Messages
                        /\ SubSeq(q, 1, c + 1) = Append(SubSeq(q, 1, c), q[c + 1])
  OBVIOUS
<1>4. c >= 1 => /\ SubSeq(q, 1, c) # <<>> /\ Head(SubSeq(q, 1, c)) = q[1]
               /\ Tail(SubSeq(q, 1, c)) = SubSeq(Tail(q), 1, c - 1)
  OBVIOUS
<1>5. QED
  BY <1>1, <1>2, <1>3, <1>4

LEMMA InitRefines == Init => Abstract!Init
<1> SUFFICES ASSUME Init PROVE Abstract!Init
  OBVIOUS
<1>1. buffer \o wire = <<>> /\ Delimiters(<<>>) = {}
  BY DEF Init, Delimiters
<1>2. Cardinality(Delimiters(<<>>)) = 0
  BY <1>1, FS_EmptySet
<1>3. Lines(<<>>) = <<>>
  BY <1>2 DEF Lines
<1>4. QED
  BY <1>1, <1>3 DEF Init, Abstract!Init

(* A step that leaves the stream and what was read last alone is none of   *)
(* the channel's.                                                          *)
LEMMA SameStream ==
    ASSUME Stream' = Stream, up' = up, returned' = returned
    PROVE  UNCHANGED Abstract!channelVars
<1>1. Lines(buffer \o wire)' = Lines(buffer \o wire)
  BY DEF Stream
<1>2. QED
  BY <1>1 DEF Abstract!channelVars

(* One portion completes at most one message, the one being sent.          *)
LEMMA SendSomeRefines ==
    ASSUME IInv, NEW s \in Senders, SendSome(s)
    PROVE  Abstract!Next \/ UNCHANGED Abstract!channelVars
<1>1. PICK n \in 1 .. Len(portion[s]) : wire' = wire \o First(portion[s], n)
  BY DEF SendSome
<1>2. s \in sending /\ up /\ up' = up /\ buffer' = buffer /\ returned' = returned
  BY DEF SendSome
<1>3. /\ Stream \in Seq(Bytes) /\ buffer \in Seq(Bytes) /\ wire \in Seq(Bytes)
      /\ portion[s] \in Seq(Bytes) /\ n \in 0 .. Len(portion[s])
  BY StreamType DEF IInv
<1> DEFINE f == First(portion[s], n)
           a == After(portion[s], n)
<1>4. f \in Seq(Bytes) /\ Len(f) = n /\ a \in Seq(Bytes) /\ portion[s] = f \o a
  BY <1>3, SplitAt
<1>5. wire' = wire \o f
  BY <1>1
<1> HIDE DEF f, a
<1>6. Stream' = Stream \o f /\ Stream' \in Seq(Bytes)
  <2>1. (buffer \o wire) \o f = buffer \o (wire \o f)
    BY <1>3, <1>4, Joined, SMTT(30)
  <2>2. Stream \o f \in Seq(Bytes)
    BY <1>3, <1>4, Joined, SMTT(30)
  <2>3. QED
    BY <1>2, <1>5, <2>1, <2>2 DEF Stream
<1>7. PICK q \in Seq(Messages) : Complete(Stream \o portion[s], q)
  BY <1>2 DEF IInv, Framed
<1>8. Carries(Stream, q) /\ Carries(Stream', q)
  <2>1. (Stream \o f) \o a = Stream \o portion[s]
    <3>0. Stream \in Seq(Bytes) /\ f \in Seq(Bytes) /\ a \in Seq(Bytes)
      BY <1>3, <1>4
    <3>1. (Stream \o f) \o a = Stream \o (f \o a)
      BY <3>0, Joined, SMTT(30)
    <3>2. QED
      BY <1>4, <3>1
  <2>2. Carries(Stream' \o a, q)
    BY <1>6, <1>7, <2>1 DEF Complete
  <2>3. Carries(Stream', q)
    BY <1>4, <1>6, <2>2, CarriesPrefix
  <2>4. Carries(Stream, q)
    BY <1>3, <1>7, CarriesPrefix DEF Complete
  <2>5. QED
    BY <2>3, <2>4
<1>9. PICK c \in 0 .. Len(q) : Whole(Stream, q, c) /\ Lines(Stream) = SubSeq(q, 1, c)
  BY <1>3, <1>8, LinesOf
<1>10. PICK d \in 0 .. Len(q) : Whole(Stream', q, d) /\ Lines(Stream') = SubSeq(q, 1, d)
  BY <1>6, <1>8, LinesOf
<1>11. c <= d
  <2>0. Len(Stream \o f) = Len(Stream) + Len(f) /\ Len(Stream) \in Nat
    <3>1. Stream \in Seq(Bytes) /\ f \in Seq(Bytes)
      BY <1>3, <1>4
    <3>2. QED
      BY <3>1, ConcatProperties, LenProperties
  <2>1. Len(Stream') = Len(Stream) + n /\ Len(Stream) \in Nat
    BY <1>4, <1>6, <2>0
  <2>2. Len(Stream) <= Len(Stream')
    BY <2>1
  <2>3. QED
    BY <1>3, <1>6, <1>9, <1>10, <2>2, WholeOrder
<1>12. Len(q) <= c + 1
  <2>1. /\ Len(Stream) \in Nat /\ Len(portion[s]) \in Nat
        /\ Len(Stream) + Len(portion[s]) = Ends(Len(q))
    BY <1>3, <1>7 DEF Complete
  <2>2. Len(portion[s]) <= Size + 1
    BY <1>2 DEF IInv, TakingTurns
  <2>3. Len(Stream) < Ends(c) + Size + 1
    BY <1>9 DEF Whole
  <2>4. SUFFICES ASSUME c + 1 < Len(q) PROVE FALSE
    BY <1>9
  <2>5. c \in Nat /\ c + 1 \in Nat /\ Len(q) \in Nat
    BY <1>9
  <2>6. Ends(c + 1) = Ends(c) + Size + 1 /\ Ends(c) \in Nat /\ Ends(c + 1) \in Nat
    BY <2>5, EndsAre
  <2>7. Ends(c + 1) + Size + 1 <= Ends(Len(q)) /\ Ends(Len(q)) \in Nat
    BY <2>4, <2>5, EndsOrder
  <2>8. \A x, y, z, e, u \in Nat :
          x + y = e /\ y <= u + 1 /\ x < z + u + 1 => ~(z + u + 1 + u + 1 <= e)
    OBVIOUS
  <2>9. Ends(c) + Size + 1 + Size + 1 <= Ends(Len(q))
    BY <2>6, <2>7
  <2>10. QED
    BY <2>1, <2>2, <2>3, <2>6, <2>7, <2>8, <2>9, SizeType
<1>13. CASE d = c
  <2>1. Lines(Stream') = Lines(Stream)
    BY <1>9, <1>10, <1>13
  <2>2. QED
    BY <1>2, <2>1 DEF Abstract!channelVars, Stream
<1>14. CASE d # c
  <2>1. d = c + 1 /\ c + 1 <= Len(q)
    BY <1>9, <1>10, <1>11, <1>12, <1>14
  <2>2. q[c + 1] \in Messages /\ Lines(Stream') = Append(Lines(Stream), q[c + 1])
    BY <1>9, <1>10, <2>1, Begins
  <2>3. Abstract!Send(q[c + 1])
    BY <1>2, <2>2 DEF Abstract!Send, Stream
  <2>4. QED
    BY <2>2, <2>3 DEF Abstract!Next
<1>15. QED
  BY <1>13, <1>14

LEMMA RecvEndRefines ==
    ASSUME IInv, RecvEnd
    PROVE  Abstract!ReadEnd
<1>1. /\ ~up /\ wire = <<>> /\ returned' = End /\ Delimiters(buffer) = {}
      /\ up' = up /\ wire' = wire /\ buffer' = buffer
  BY DEF RecvEnd, NeedsMore
<1>2. buffer \in Seq(Bytes) /\ buffer \o <<>> = buffer
  BY StreamType, Joined DEF IInv
<1>3. Cardinality(Delimiters(buffer)) = 0
  BY <1>1, FS_EmptySet
<1>4. Lines(buffer) = <<>>
  BY <1>3 DEF Lines
<1>5. Lines(buffer \o wire) = <<>>
  BY <1>1, <1>2, <1>4
<1>6. Lines(buffer \o wire)' = Lines(buffer \o wire)
  BY <1>1
<1>7. QED
  BY <1>1, <1>5, <1>6 DEF Abstract!ReadEnd

LEMMA ReturnMessageRefines ==
    ASSUME IInv, ReturnMessage
    PROVE  Abstract!Read
<1>1. PICK q \in Seq(Messages) : Carries(Stream, q)
  BY DEF IInv, Framed
<1>2. /\ returned' = q[1] /\ Len(q) >= 1 /\ Len(buffer) >= Size + 1
      /\ Stream' = After(Stream, Size + 1) /\ up' = up
  BY <1>1, ReturnFirst DEF IInv, ReturnMessage
<1>3. /\ Stream \in Seq(Bytes) /\ Len(Stream) \in Nat /\ Len(Stream) >= Size + 1
      /\ Size + 1 \in 0 .. Len(Stream)
  <2>1. Len(Stream) = Len(buffer) + Len(wire) /\ Len(buffer) \in Nat /\ Len(wire) \in Nat
    BY StreamType DEF Stream, IInv
  <2>2. Stream \in Seq(Bytes)
    BY StreamType DEF IInv
  <2>3. QED
    BY <1>2, <2>1, <2>2, SizeType
<1>4. PICK c \in 0 .. Len(q) : Whole(Stream, q, c) /\ Lines(Stream) = SubSeq(q, 1, c)
  BY <1>1, <1>3, LinesOf
<1>5. Ends(c) <= Len(Stream) /\ Len(Stream) < Ends(c) + Size + 1 /\ c \in Nat
  BY <1>4 DEF Whole
<1>6. c >= 1
  <2>1. SUFFICES ASSUME c = 0 PROVE FALSE
    BY <1>5
  <2>2. Ends(c) = 0
    BY <2>1, EndsAre
  <2>3. QED
    BY <1>3, <1>5, <2>2, SizeType
<1>7. /\ Stream' \in Seq(Bytes) /\ Len(Stream') = Len(Stream) - (Size + 1)
      /\ Tail(q) \in Seq(Messages) /\ Carries(Stream', Tail(q))
  BY <1>1, <1>2, <1>3, SplitAt, CarriesRest
<1>8. Whole(Stream', Tail(q), c - 1)
  <2>1. c \in Nat \ {0}
    BY <1>5, <1>6
  <2>2. Ends(c) = Ends(c - 1) + (Size + 1) /\ Ends(c - 1) \in Nat
    BY <2>1, NextEnd
  <2>3. c - 1 \in 0 .. Len(Tail(q))
    BY <1>2, <1>4, <1>6
  <2>4. Ends(c - 1) <= Len(Stream') /\ Len(Stream') < Ends(c - 1) + Size + 1
    BY <1>3, <1>5, <1>7, <2>2, SizeType
  <2>5. QED
    BY <1>7, <2>3, <2>4 DEF Whole
<1>9. Lines(Stream') = SubSeq(Tail(q), 1, c - 1)
  BY <1>7, <1>8, LinesAre
<1>10. /\ Lines(Stream) # <<>> /\ Head(Lines(Stream)) = q[1]
       /\ Lines(Stream') = Tail(Lines(Stream))
  <2>1. /\ SubSeq(q, 1, c) # <<>> /\ Head(SubSeq(q, 1, c)) = q[1]
        /\ Tail(SubSeq(q, 1, c)) = SubSeq(Tail(q), 1, c - 1)
    BY <1>6, Begins
  <2>2. QED
    BY <1>4, <1>9, <2>1
<1>11. QED
  BY <1>2, <1>10 DEF Abstract!Read, Stream

LEMMA LinkEndsRefines ==
    ASSUME IInv, LinkEnds
    PROVE  Abstract!Break
<1>1. up /\ up' = FALSE /\ returned' = returned
  BY DEF LinkEnds
<1>2. Stream' \in Seq(Bytes) /\ Stream \in Seq(Bytes)
  BY LinkEndsCuts, StreamType DEF IInv
<1>3. PICK g \in Seq(Bytes) : Stream = Stream' \o g
  BY LinkEndsCuts DEF IInv
<1>4. PICK q \in Seq(Messages) : Carries(Stream, q)
  BY DEF IInv, Framed
<1>5. Carries(Stream', q)
  BY <1>2, <1>3, <1>4, CarriesPrefix
<1>6. PICK c \in 0 .. Len(q) : Whole(Stream, q, c) /\ Lines(Stream) = SubSeq(q, 1, c)
  BY <1>2, <1>4, LinesOf
<1>7. PICK d \in 0 .. Len(q) : Whole(Stream', q, d) /\ Lines(Stream') = SubSeq(q, 1, d)
  BY <1>2, <1>5, LinesOf
<1>8. d <= c
  <2>1. Len(Stream') <= Len(Stream)
    BY <1>2, <1>3
  <2>2. QED
    BY <1>2, <1>6, <1>7, <2>1, WholeOrder
<1>9. /\ d \in 0 .. Len(Lines(Stream)) /\ Lines(Stream') = SubSeq(Lines(Stream), 1, d)
  <2>1. Len(Lines(Stream)) = c /\ d \in 0 .. c
    BY <1>6, <1>7, <1>8, Begins
  <2>2. QED
    BY <1>6, <1>7, <2>1, Begins
<1>10. QED
  BY <1>1, <1>9 DEF Abstract!Break, Stream

LEMMA NextRefines == IInv /\ [Next]_vars => [Abstract!Next]_Abstract!channelVars
<1> SUFFICES ASSUME IInv, [Next]_vars
             PROVE  Abstract!Next \/ UNCHANGED Abstract!channelVars
  OBVIOUS
<1>1. ASSUME NEW s \in Senders, NEW m \in Messages, StartSend(s, m)
      PROVE  UNCHANGED Abstract!channelVars
  BY <1>1, SameStream DEF StartSend, Stream
<1>2. ASSUME NEW s \in Senders, EndSend(s)
      PROVE  UNCHANGED Abstract!channelVars
  BY <1>2, SameStream DEF EndSend, Stream
<1>3. CASE Recv
  <2>1. Stream' = Stream
    BY <1>3, RecvSame DEF IInv
  <2>2. QED
    BY <1>3, <2>1, SameStream DEF Recv
<1>4. CASE UNCHANGED vars
  BY <1>4, SameStream DEF vars, Stream
<1>5. ASSUME NEW s \in Senders, SendSome(s)
      PROVE  Abstract!Next \/ UNCHANGED Abstract!channelVars
  BY <1>5, SendSomeRefines
<1>6. CASE RecvEnd
  BY <1>6, RecvEndRefines DEF Abstract!Next
<1>7. CASE ReturnMessage
  BY <1>7, ReturnMessageRefines DEF Abstract!Next
<1>8. CASE LinkEnds
  BY <1>8, LinkEndsRefines DEF Abstract!Next
<1>9. QED
  BY <1>1, <1>2, <1>3, <1>4, <1>5, <1>6, <1>7, <1>8 DEF Next, SendStep, ReadStep

(* The byte stream implements the channel of whole messages: however TCP   *)
(* cuts it up and whoever sends at the same time, read_message returns     *)
(* whole messages, in order and without a gap, and all that arrived is     *)
(* returned before the end of the connection is.                           *)
THEOREM Refinement == Spec => ImplementsChannel
<1>1. Spec => Abstract!Spec
  BY InitRefines, Invariance, NextRefines, PTL DEF Spec, Abstract!Spec
<1>2. QED
  BY <1>1 DEF ImplementsChannel
=============================================================================
