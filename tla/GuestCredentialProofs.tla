----------------------- MODULE GuestCredentialProofs -----------------------
(***************************************************************************)
(* What the proofs about both configurations need: concatenations, keyed   *)
(* credentials, and the names of units.                                    *)
(***************************************************************************)
EXTENDS GuestCredentials, FiniteSetTheorems, TLAPS

-----------------------------------------------------------------------------
(* Sequences.                                                              *)

LEMMA EmptyIs == IsSeq(<<>>) /\ Range(<<>>) = {} /\ Len(<<>>) = 0 /\ DOMAIN <<>> = {}
BY DEF IsSeq, Range

LEMMA SeqIs ==
  ASSUME NEW s, IsSeq(s)
  PROVE  Len(s) \in Nat /\ DOMAIN s = 1..Len(s) /\ s \in Seq(Range(s))
BY DEF IsSeq

\* A sequence made element by element of another.
LEMMA MappedIs ==
  ASSUME NEW s, IsSeq(s), NEW f, DOMAIN f = DOMAIN s, f = [i \in DOMAIN f |-> f[i]]
  PROVE  IsSeq(f) /\ Len(f) = Len(s)
<1>1. Len(s) \in Nat /\ DOMAIN f = 1..Len(s)
  BY SeqIs
<1>2. f \in [1..Len(s) -> Range(f)]
  BY <1>1 DEF Range
<1> QED BY <1>1, <1>2 DEF IsSeq

LEMMA ConcatIs ==
  ASSUME NEW s, NEW t, IsSeq(s), IsSeq(t)
  PROVE  /\ IsSeq(s \o t)
         /\ Len(s \o t) = Len(s) + Len(t)
         /\ DOMAIN (s \o t) = 1..(Len(s) + Len(t))
         /\ \A i \in DOMAIN s : (s \o t)[i] = s[i]
         /\ \A i \in DOMAIN t : (s \o t)[Len(s) + i] = t[i]
         /\ Range(s \o t) = Range(s) \cup Range(t)
<1> DEFINE S == Range(s) \cup Range(t)
<1>1. s \in Seq(S) /\ t \in Seq(S)
  BY SeqIs
<1> HIDE DEF S
<1>2. /\ s \o t \in Seq(S)
      /\ Len(s \o t) = Len(s) + Len(t)
      /\ \A i \in 1..(Len(s) + Len(t)) :
           (s \o t)[i] = IF i <= Len(s) THEN s[i] ELSE t[i - Len(s)]
  BY <1>1
<1>3. /\ Len(s) \in Nat /\ Len(t) \in Nat
      /\ DOMAIN s = 1..Len(s) /\ DOMAIN t = 1..Len(t)
      /\ DOMAIN (s \o t) = 1..(Len(s) + Len(t))
  BY <1>1, <1>2
<1>4. \A i \in DOMAIN s : (s \o t)[i] = s[i] /\ i \in DOMAIN (s \o t)
  BY <1>2, <1>3
<1>5. \A i \in DOMAIN t : (s \o t)[Len(s) + i] = t[i] /\ Len(s) + i \in DOMAIN (s \o t)
  BY <1>2, <1>3
<1>6. \A i \in DOMAIN (s \o t) :
        \/ i \in DOMAIN s /\ (s \o t)[i] = s[i]
        \/ i - Len(s) \in DOMAIN t /\ (s \o t)[i] = t[i - Len(s)]
  BY <1>2, <1>3
<1>7. Range(s \o t) = Range(s) \cup Range(t)
  BY <1>4, <1>5, <1>6 DEF Range
<1>8. IsSeq(s \o t)
  <2> DEFINE c == s \o t
             n == Len(s) + Len(t)
  <2>1. c \in Seq(S) /\ n = Len(c)
    BY <1>2
  <2>4. n \in Nat /\ DOMAIN c = 1..n
    BY <1>3
  <2>5. c \in [1..n -> S]
    <3> HIDE DEF c, n
    <3> QED BY <2>1
  <2> HIDE DEF c, n
  <2>2. c \in [1..n -> Range(c)]
    BY <2>4, <2>5 DEF Range
  <2>3. IsSeq(c)
    BY <2>2, <2>4 DEF IsSeq
  <2> QED BY <2>3 DEF c
<1> QED BY <1>2, <1>3, <1>4, <1>5, <1>7, <1>8

\* Where an element of a concatenation comes from.
LEMMA ConcatFrom ==
  ASSUME NEW s, NEW t, IsSeq(s), IsSeq(t), NEW i \in DOMAIN (s \o t)
  PROVE  \/ i \in DOMAIN s /\ (s \o t)[i] = s[i]
         \/ /\ i \notin DOMAIN s /\ i - Len(s) \in DOMAIN t /\ i \in Int /\ Len(s) \in Int
            /\ (s \o t)[i] = t[i - Len(s)]
<1>1. /\ Len(s) \in Nat /\ DOMAIN s = 1..Len(s) /\ Len(t) \in Nat /\ DOMAIN t = 1..Len(t)
      /\ DOMAIN (s \o t) = 1..(Len(s) + Len(t))
  BY SeqIs, ConcatIs
<1>2. i \in DOMAIN s \/ (i - Len(s) \in DOMAIN t /\ i = Len(s) + (i - Len(s)))
  BY <1>1
<1> QED BY <1>1, <1>2, ConcatIs

LEMMA AppendIs ==
  ASSUME NEW s, IsSeq(s), NEW x
  PROVE  Append(s, x) = s \o <<x>>
<1> DEFINE S == Range(s) \cup {x}
<1>1. s \in Seq(S) /\ x \in S
  BY SeqIs
<1> HIDE DEF S
<1>2. <<x>> \in Seq(S) /\ Len(<<x>>) = 1
  BY <1>1
<1>3. /\ Append(s, x) \in Seq(S) /\ s \o <<x>> \in Seq(S)
      /\ Len(Append(s, x)) = Len(s \o <<x>>)
  BY <1>1, <1>2
<1>4. \A i \in 1..Len(Append(s, x)) : Append(s, x)[i] = (s \o <<x>>)[i]
  BY <1>1, <1>2
<1> QED BY <1>3, <1>4

LEMMA OneIs ==
  ASSUME NEW x
  PROVE  IsSeq(<<x>>) /\ Range(<<x>>) = {x} /\ DOMAIN <<x>> = {1} /\ Len(<<x>>) = 1
         /\ <<x>>[1] = x
BY DEF IsSeq, Range

LEMMA AppendPlaces ==
  ASSUME NEW s, IsSeq(s), NEW x
  PROVE  /\ IsSeq(Append(s, x)) /\ Len(Append(s, x)) = Len(s) + 1 /\ Len(s) \in Nat
         /\ DOMAIN Append(s, x) = 1..(Len(s) + 1) /\ DOMAIN s = 1..Len(s)
         /\ Append(s, x)[Len(s) + 1] = x
         /\ \A i \in 1..Len(s) : Append(s, x)[i] = s[i]
<1>1. Append(s, x) = s \o <<x>> /\ DOMAIN s = 1..Len(s) /\ Len(s) \in Nat
  BY AppendIs, SeqIs
<1>2. IsSeq(<<x>>) /\ DOMAIN <<x>> = {1} /\ Len(<<x>>) = 1 /\ <<x>>[1] = x
  BY OneIs
<1>3. /\ IsSeq(s \o <<x>>) /\ Len(s \o <<x>>) = Len(s) + Len(<<x>>)
      /\ DOMAIN (s \o <<x>>) = 1..(Len(s) + Len(<<x>>))
  BY <1>2, ConcatIs
<1>4. \A i \in DOMAIN s : (s \o <<x>>)[i] = s[i]
  BY <1>2, ConcatIs
<1>5. \A i \in DOMAIN <<x>> : (s \o <<x>>)[Len(s) + i] = <<x>>[i]
  BY <1>2, ConcatIs
<1> DEFINE c == s \o <<x>>
           o == <<x>>
<1>6. /\ IsSeq(c) /\ Len(c) = Len(s) + 1 /\ DOMAIN c = 1..(Len(s) + 1)
      /\ c[Len(s) + 1] = x /\ \A i \in 1..Len(s) : c[i] = s[i]
  <2>1. 1 \in DOMAIN o /\ o[1] = x /\ Len(o) = 1
    BY <1>2
  <2>2. c[Len(s) + 1] = x
    BY <1>5, <2>1
  <2> QED BY <1>1, <1>3, <1>4, <2>1, <2>2
<1> HIDE DEF c, o
<1> QED BY <1>1, <1>6 DEF c

LEMMA TwoIs ==
  ASSUME NEW x, NEW y
  PROVE  IsSeq(<<x, y>>) /\ Range(<<x, y>>) = {x, y} /\ DOMAIN <<x, y>> = {1, 2}
         /\ <<x, y>>[1] = x /\ <<x, y>>[2] = y
<1>1. DOMAIN <<x, y>> = {1, 2} /\ <<x, y>>[1] = x /\ <<x, y>>[2] = y
  OBVIOUS
<1>2. Range(<<x, y>>) = {x, y}
  BY <1>1 DEF Range
<1>3. IsSeq(<<x, y>>)
  BY <1>2 DEF IsSeq
<1> QED BY <1>1, <1>2, <1>3

LEMMA EmptyConcat ==
  ASSUME NEW s, IsSeq(s)
  PROVE  <<>> \o s = s /\ s \o <<>> = s
<1>1. s \in Seq(Range(s))
  BY SeqIs
<1> QED BY <1>1

LEMMA ThreeIs ==
  ASSUME NEW x, NEW y, NEW z
  PROVE  IsSeq(<<x, y, z>>) /\ Range(<<x, y, z>>) = {x, y, z} /\ DOMAIN <<x, y, z>> = {1, 2, 3}
         /\ <<x, y, z>>[1] = x /\ <<x, y, z>>[2] = y /\ <<x, y, z>>[3] = z
<1>1. /\ DOMAIN <<x, y, z>> = {1, 2, 3}
      /\ <<x, y, z>>[1] = x /\ <<x, y, z>>[2] = y /\ <<x, y, z>>[3] = z
  OBVIOUS
<1>2. Range(<<x, y, z>>) = {x, y, z}
  BY <1>1 DEF Range
<1>3. IsSeq(<<x, y, z>>)
  BY <1>2 DEF IsSeq
<1> QED BY <1>1, <1>2, <1>3

LEMMA ConcatPair ==
  ASSUME NEW s, NEW t, IsSeq(s), IsSeq(t),
         NEW i \in DOMAIN (s \o t), NEW j \in DOMAIN (s \o t), i # j
  PROVE  LET c == s \o t IN
         \/ \E k, l \in DOMAIN s : k # l /\ c[i] = s[k] /\ c[j] = s[l]
         \/ \E k, l \in DOMAIN t : k # l /\ c[i] = t[k] /\ c[j] = t[l]
         \/ c[i] \in Range(s) /\ c[j] \in Range(t)
         \/ c[i] \in Range(t) /\ c[j] \in Range(s)
<1> DEFINE c == s \o t
<1>1. \A k \in DOMAIN c : \/ k \in DOMAIN s /\ c[k] = s[k]
                          \/ /\ k \notin DOMAIN s /\ k - Len(s) \in DOMAIN t
                             /\ k \in Int /\ Len(s) \in Int /\ c[k] = t[k - Len(s)]
  BY ConcatFrom
<1> HIDE DEF c
<1>2. CASE i \notin DOMAIN s /\ j \notin DOMAIN s
  <2>1. i - Len(s) # j - Len(s)
    BY <1>1, <1>2 DEF c
  <2> QED BY <1>1, <1>2, <2>1 DEF c
<1>3. CASE i \in DOMAIN s /\ j \notin DOMAIN s
  BY <1>1, <1>3 DEF Range, c
<1>4. CASE i \notin DOMAIN s /\ j \in DOMAIN s
  BY <1>1, <1>4 DEF Range, c
<1>5. CASE i \in DOMAIN s /\ j \in DOMAIN s
  BY <1>1, <1>5 DEF c
<1> QED BY <1>2, <1>3, <1>4, <1>5

\* Two sequences are one if their places are.
LEMMA SamePlaces ==
  ASSUME NEW s, NEW t, IsSeq(s), IsSeq(t), Len(s) = Len(t), \A i \in DOMAIN s : s[i] = t[i]
  PROVE  s = t
<1>1. DOMAIN s = DOMAIN t
  BY SeqIs
<1>2. s = [i \in DOMAIN s |-> s[i]] /\ t = [i \in DOMAIN t |-> t[i]]
  <2>1. s \in Seq(Range(s)) /\ t \in Seq(Range(t))
    BY SeqIs
  <2> QED BY <2>1
<1> QED BY <1>1, <1>2

LEMMA PairIs ==
  ASSUME NEW x, NEW y
  PROVE  Append(<<>>, x) = <<x>> /\ Append(<<x>>, y) = <<x, y>> /\ <<x>> \o <<y>> = <<x, y>>
<1>1. Append(<<>>, x) = <<x>>
  BY EmptyIs, OneIs, AppendIs, EmptyConcat
<1>2. /\ IsSeq(<<x>>) /\ Len(<<x>>) = 1 /\ <<x>>[1] = x
      /\ IsSeq(<<x, y>>) /\ Len(<<x, y>>) = 2 /\ <<x, y>>[1] = x /\ <<x, y>>[2] = y
  BY OneIs, TwoIs
<1> DEFINE a == Append(<<x>>, y)
           s == <<x>>
           t == <<x, y>>
<1>3. /\ IsSeq(a) /\ Len(a) = Len(s) + 1 /\ DOMAIN a = 1..(Len(s) + 1)
      /\ a[Len(s) + 1] = y /\ \A i \in 1..Len(s) : a[i] = s[i]
  BY <1>2, AppendPlaces
<1> HIDE DEF a, s, t
<1>4. IsSeq(a) /\ Len(a) = 2 /\ DOMAIN a = {1, 2} /\ a[1] = x /\ a[2] = y
  BY <1>2, <1>3 DEF s
<1>5. a = t
  BY <1>2, <1>4, SamePlaces DEF t
<1>6. a = s \o <<y>>
  BY <1>2, AppendIs DEF a, s
<1> QED BY <1>1, <1>5, <1>6 DEF a, s, t

LEMMA TwoAppended ==
  ASSUME NEW s, IsSeq(s), NEW x, NEW y
  PROVE  Append(Append(s, x), y) = s \o <<x, y>>
<1> DEFINE a == Append(s, x)
           b == Append(a, y)
           t == <<x, y>>
           c == s \o t
           n == Len(s)
<1>1. /\ IsSeq(a) /\ Len(a) = n + 1 /\ n \in Nat /\ DOMAIN s = 1..n
      /\ DOMAIN a = 1..(n + 1) /\ a[n + 1] = x /\ \A i \in 1..n : a[i] = s[i]
  BY AppendPlaces
<1> HIDE DEF a
<1>2. /\ IsSeq(b) /\ Len(b) = Len(a) + 1 /\ DOMAIN b = 1..(Len(a) + 1)
      /\ b[Len(a) + 1] = y /\ \A i \in 1..Len(a) : b[i] = a[i]
  BY <1>1, AppendPlaces
<1>3. IsSeq(t) /\ DOMAIN t = {1, 2} /\ Len(t) = 2 /\ t[1] = x /\ t[2] = y
  BY TwoIs
<1> HIDE DEF b, t
<1>4. /\ IsSeq(c) /\ Len(c) = n + Len(t)
      /\ \A i \in DOMAIN s : c[i] = s[i]
      /\ \A i \in DOMAIN t : c[n + i] = t[i]
  <2>1. IsSeq(s \o t) /\ Len(s \o t) = Len(s) + Len(t)
    BY <1>3, ConcatIs
  <2>2. \A i \in DOMAIN s : (s \o t)[i] = s[i]
    BY <1>3, ConcatIs
  <2>3. \A i \in DOMAIN t : (s \o t)[Len(s) + i] = t[i]
    BY <1>3, ConcatIs
  <2> QED BY <2>1, <2>2, <2>3
<1> HIDE DEF c, n
<1>5. c[n + 1] = x /\ c[n + 2] = y
  BY <1>3, <1>4
<1>6. \A i \in DOMAIN b : b[i] = c[i]
  <2> SUFFICES ASSUME NEW i \in 1..(n + 2) PROVE b[i] = c[i]
    BY <1>1, <1>2
  <2>1. CASE i = n + 2
    BY <1>1, <1>2, <1>5, <2>1
  <2>2. CASE i = n + 1
    BY <1>1, <1>2, <1>5, <2>2
  <2>3. CASE i \in 1..n
    BY <1>1, <1>2, <1>4, <2>3
  <2> QED BY <1>1, <2>1, <2>2, <2>3
<1>7. Len(b) = Len(c)
  BY <1>1, <1>2, <1>3, <1>4
<1> QED BY <1>2, <1>4, <1>6, <1>7, SamePlaces DEF a, b, c, t

\* A name can be told from what is put before it, or after it.
LEMMA PrefixInjective ==
  ASSUME NEW p, NEW s, NEW t, IsSeq(p), IsSeq(s), IsSeq(t), p \o s = p \o t
  PROVE  s = t
<1>1. /\ Len(p \o s) = Len(p) + Len(s) /\ Len(p \o t) = Len(p) + Len(t)
      /\ Len(p) \in Nat /\ Len(s) \in Nat /\ Len(t) \in Nat
      /\ DOMAIN s = 1..Len(s) /\ DOMAIN t = 1..Len(t)
  BY ConcatIs, SeqIs
<1>2. Len(s) = Len(t)
  <2> DEFINE a == Len(p) b == Len(s) d == Len(t)
  <2>1. a \in Nat /\ b \in Nat /\ d \in Nat /\ a + b = a + d
    BY <1>1
  <2> HIDE DEF a, b, d
  <2>2. b = d
    BY <2>1
  <2> QED BY <2>2 DEF b, d
<1>3. \A i \in DOMAIN s : (p \o s)[Len(p) + i] = s[i]
  BY ConcatIs
<1>4. \A i \in DOMAIN t : (p \o t)[Len(p) + i] = t[i]
  BY ConcatIs
<1>5. \A i \in DOMAIN s : s[i] = t[i]
  BY <1>1, <1>2, <1>3, <1>4
<1> QED BY <1>2, <1>5, SamePlaces

LEMMA SuffixInjective ==
  ASSUME NEW p, NEW s, NEW t, IsSeq(p), IsSeq(s), IsSeq(t), s \o p = t \o p
  PROVE  s = t
<1>1. /\ Len(s \o p) = Len(s) + Len(p) /\ Len(t \o p) = Len(t) + Len(p)
      /\ Len(p) \in Nat /\ Len(s) \in Nat /\ Len(t) \in Nat
      /\ DOMAIN s = 1..Len(s) /\ DOMAIN t = 1..Len(t)
  BY ConcatIs, SeqIs
<1>2. Len(s) = Len(t)
  <2> DEFINE a == Len(p) b == Len(s) d == Len(t)
  <2>1. a \in Nat /\ b \in Nat /\ d \in Nat /\ b + a = d + a
    BY <1>1
  <2> HIDE DEF a, b, d
  <2>2. b = d
    BY <2>1
  <2> QED BY <2>2 DEF b, d
<1>3. \A i \in DOMAIN s : (s \o p)[i] = s[i]
  BY ConcatIs
<1>4. \A i \in DOMAIN t : (t \o p)[i] = t[i]
  BY ConcatIs
<1>5. \A i \in DOMAIN s : s[i] = t[i]
  BY <1>1, <1>2, <1>3, <1>4
<1> QED BY <1>2, <1>5, SamePlaces

\* What comes first, and the rest.
LEMMA ConsIs ==
  ASSUME NEW x, NEW s, IsSeq(s)
  PROVE  Head(<<x>> \o s) = x /\ Tail(<<x>> \o s) = s
<1> DEFINE S == Range(s) \cup {x}
<1>1. s \in Seq(S) /\ x \in S
  BY SeqIs
<1> HIDE DEF S
<1>2. <<x>> \in Seq(S) /\ Len(<<x>>) = 1 /\ <<x>>[1] = x
  BY <1>1
<1>3. <<x>> \o s \in Seq(S) /\ Len(<<x>> \o s) = 1 + Len(s) /\ Len(s) \in Nat
      /\ \A i \in 1..(1 + Len(s)) : (<<x>> \o s)[i] = IF i <= 1 THEN <<x>>[i] ELSE s[i - 1]
  BY <1>1, <1>2
<1>4. Head(<<x>> \o s) = x
  BY <1>2, <1>3
<1>5. /\ Tail(<<x>> \o s) \in Seq(S) /\ Len(Tail(<<x>> \o s)) = Len(s)
      /\ \A i \in 1..Len(s) : Tail(<<x>> \o s)[i] = (<<x>> \o s)[i + 1]
  BY <1>3
<1>6. \A i \in 1..Len(s) : Tail(<<x>> \o s)[i] = s[i]
  BY <1>3, <1>5
<1>7. Tail(<<x>> \o s) = s
  BY <1>1, <1>5, <1>6
<1> QED BY <1>4, <1>7

-----------------------------------------------------------------------------
(* Credentials.                                                            *)

\* No two credentials have one kind and name.
Keyed(s) ==
  \A i, j \in DOMAIN s : s[i].kind = s[j].kind /\ s[i].name = s[j].name => i = j

LEMMA ConcatKeyed ==
  ASSUME NEW s, NEW t, IsSeq(s), IsSeq(t), Keyed(s), Keyed(t),
         \A x \in Range(s), y \in Range(t) : x.kind # y.kind \/ x.name # y.name
  PROVE  Keyed(s \o t)
<1> SUFFICES ASSUME NEW i \in DOMAIN (s \o t), NEW j \in DOMAIN (s \o t), i # j,
                    (s \o t)[i].kind = (s \o t)[j].kind, (s \o t)[i].name = (s \o t)[j].name
             PROVE  FALSE
  BY DEF Keyed
<1> DEFINE c == s \o t
<1>1. \/ \E k, l \in DOMAIN s : k # l /\ c[i] = s[k] /\ c[j] = s[l]
      \/ \E k, l \in DOMAIN t : k # l /\ c[i] = t[k] /\ c[j] = t[l]
      \/ c[i] \in Range(s) /\ c[j] \in Range(t)
      \/ c[i] \in Range(t) /\ c[j] \in Range(s)
  BY ConcatPair
<1>2. c[i].kind = c[j].kind /\ c[i].name = c[j].name
  OBVIOUS
<1> HIDE DEF c
<1> QED BY <1>1, <1>2 DEF Keyed

LEMMA KeyedReceived ==
  ASSUME NEW g, Keyed(g)
  PROVE  Received(g) = Range(g)
<1> SUFFICES ASSUME NEW c \in Range(g)
             PROVE  Cardinality({i \in DOMAIN g : g[i].kind = c.kind /\ g[i].name = c.name}) = 1
  BY DEF Received
<1>1. PICK k \in DOMAIN g : c = g[k]
  BY DEF Range
<1>2. {i \in DOMAIN g : g[i].kind = c.kind /\ g[i].name = c.name} = {k}
  BY <1>1 DEF Keyed
<1>3. Cardinality({k}) = 1
  BY FS_Singleton
<1> QED BY <1>2, <1>3

LEMMA ServicesAre ==
  /\ \A s : Service(s).kind = "systemd.extra-unit" /\ Service(s).name = <<s>>
            /\ Service(s).content = [exec |-> s]
  /\ \A t, f, w : DropIn(t, f, w).kind = "systemd.unit-dropin" /\ DropIn(t, f, w).name = <<t, f>>
                  /\ DropIn(t, f, w).content = [wants |-> w]
  /\ \A l : Tmpfiles(l).kind = "tmpfiles.extra" /\ Tmpfiles(l).content = [lines |-> l]
BY DEF Service, Unit, DropIn, Tmpfiles

-----------------------------------------------------------------------------
(* Names of units.                                                         *)

\* A guest path: absolute, and with no escape sequence in it.
GuestPath(p) == IsSeq(p) /\ p # <<>> /\ Head(p) = "/" /\ "\\x2d" \notin Range(p)

\* The unit name of a guest path is as long as the path, and spells it.
LEMMA UnitNameIs ==
  ASSUME NEW p, GuestPath(p)
  PROVE  /\ Len(p) \in Nat \ {0} /\ p[1] = "/" /\ DOMAIN p = 1..Len(p)
         /\ DOMAIN UnitName(p) = 1..Len(p)
         /\ UnitName(p)[Len(p)] = ".mount"
         /\ \A i \in 1..(Len(p) - 1) : UnitName(p)[i] = Escape(p[i + 1])
<1> DEFINE S == Range(p)
           rest == Tail(p)
           body == [i \in 1..Len(rest) |-> Escape(rest[i])]
           last == <<".mount">>
<1>1. p \in Seq(S) /\ p # <<>> /\ Head(p) = "/"
  BY SeqIs DEF GuestPath
<1>2. Len(p) \in Nat \ {0} /\ DOMAIN p = 1..Len(p) /\ p[1] = "/"
  <2> HIDE DEF S
  <2> QED BY <1>1
<1>3. rest \in Seq(S) /\ Len(rest) = Len(p) - 1 /\ \A i \in 1..(Len(p) - 1) : rest[i] = p[i + 1]
  <2> HIDE DEF S
  <2> QED BY <1>1
<1>4. UnitName(p) = body \o last
  BY <1>1 DEF UnitName
<1>5. DOMAIN body = 1..(Len(p) - 1) /\ \A i \in 1..(Len(p) - 1) : body[i] = Escape(p[i + 1])
  BY <1>3
<1>6. body = [i \in 1..(Len(p) - 1) |-> body[i]]
  BY <1>3
<1> HIDE DEF body, last, rest, S
<1>7. IsSeq(body) /\ Len(body) = Len(p) - 1
  <2>1. body \in [1..(Len(p) - 1) -> Range(body)] /\ Len(p) - 1 \in Nat
    BY <1>2, <1>5, <1>6 DEF Range
  <2> QED BY <2>1 DEF IsSeq
<1>8. body \o last = Append(body, ".mount")
  BY <1>7, AppendIs DEF last
<1>9. /\ DOMAIN (body \o last) = 1..(Len(body) + 1) /\ DOMAIN body = 1..Len(body)
      /\ \A i \in 1..Len(body) : (body \o last)[i] = body[i]
      /\ (body \o last)[Len(body) + 1] = ".mount"
  <2>1. /\ DOMAIN Append(body, ".mount") = 1..(Len(body) + 1) /\ DOMAIN body = 1..Len(body)
        /\ \A i \in 1..Len(body) : Append(body, ".mount")[i] = body[i]
        /\ Append(body, ".mount")[Len(body) + 1] = ".mount"
    BY <1>7, AppendPlaces
  <2> QED BY <1>8, <2>1, Zenon
<1>13. Len(body) + 1 = Len(p)
  BY <1>2, <1>7
<1>10. DOMAIN UnitName(p) = 1..Len(p)
  BY <1>4, <1>9, <1>13, Zenon
<1>11. UnitName(p)[Len(p)] = ".mount"
  BY <1>4, <1>9, <1>13, Zenon
<1>12. \A i \in 1..(Len(p) - 1) : UnitName(p)[i] = Escape(p[i + 1])
  BY <1>4, <1>5, <1>9
<1> QED BY <1>2, <1>10, <1>11, <1>12

LEMMA EscapeInjective ==
  \A a, b : a # "\\x2d" /\ b # "\\x2d" /\ Escape(a) = Escape(b) => a = b
BY DEF Escape

LEMMA UnitNameInjective ==
  ASSUME NEW p, NEW q, GuestPath(p), GuestPath(q), UnitName(p) = UnitName(q)
  PROVE  p = q
<1>1. /\ Len(p) \in Nat \ {0} /\ Len(q) \in Nat \ {0} /\ p[1] = q[1]
      /\ DOMAIN p = 1..Len(p) /\ DOMAIN q = 1..Len(q)
      /\ DOMAIN UnitName(p) = 1..Len(p) /\ DOMAIN UnitName(q) = 1..Len(q)
  BY UnitNameIs
<1>2. Len(p) = Len(q)
  <2>1. 1..Len(p) = 1..Len(q)
    BY <1>1
  <2>2. Len(p) \in 1..Len(p) /\ Len(q) \in 1..Len(q)
    BY <1>1
  <2>3. Len(p) \in 1..Len(q) /\ Len(q) \in 1..Len(p)
    BY <2>1, <2>2, Zenon
  <2> DEFINE m == Len(p)
             n == Len(q)
  <2>4. m \in Nat /\ n \in Nat /\ m \in 1..n /\ n \in 1..m
    BY <1>1, <2>3, Zenon
  <2> HIDE DEF m, n
  <2>5. m = n
    BY <2>4
  <2> QED BY <2>5 DEF m, n
<1>3. \A i \in 1..(Len(p) - 1) : p[i + 1] = q[i + 1]
  <2> SUFFICES ASSUME NEW i \in 1..(Len(p) - 1) PROVE p[i + 1] = q[i + 1]
    OBVIOUS
  <2>1. Escape(p[i + 1]) = Escape(q[i + 1])
    BY <1>2, UnitNameIs
  <2>2. i + 1 \in DOMAIN p /\ i + 1 \in DOMAIN q
    BY <1>1, <1>2
  <2>3. p[i + 1] # "\\x2d" /\ q[i + 1] # "\\x2d"
    BY <2>2 DEF GuestPath, Range
  <2> QED BY <2>1, <2>3, EscapeInjective
<1>4. \A i \in 1..Len(p) : p[i] = q[i]
  <2> SUFFICES ASSUME NEW i \in 1..Len(p), i # 1 PROVE p[i] = q[i]
    BY <1>1
  <2>1. i - 1 \in 1..(Len(p) - 1) /\ (i - 1) + 1 = i
    BY <1>1
  <2> QED BY <1>3, <2>1
<1>5. p = [i \in DOMAIN p |-> p[i]] /\ q = [i \in DOMAIN q |-> q[i]]
  <2>1. p \in Seq(Range(p)) /\ q \in Seq(Range(q))
    BY DEF GuestPath, IsSeq
  <2> QED BY <2>1
<1> QED BY <1>1, <1>2, <1>4, <1>5

\* It is the name of no service.
LEMMA UnitNameApart ==
  ASSUME NEW p, GuestPath(p), NEW service, service # ".mount"
  PROVE  UnitName(p) # <<service>>
<1>1. /\ Len(p) \in Nat \ {0} /\ DOMAIN UnitName(p) = 1..Len(p)
      /\ UnitName(p)[Len(p)] = ".mount"
  BY UnitNameIs
<1>2. DOMAIN <<service>> = 1..1 /\ <<service>>[1] = service
  OBVIOUS
<1> SUFFICES ASSUME UnitName(p) = <<service>> PROVE FALSE
  OBVIOUS
<1>3. Len(p) = 1
  BY <1>1, <1>2
<1> QED BY <1>1, <1>2, <1>3
=============================================================================
