---------------------------- MODULE VoiceProofs -----------------------------
(***************************************************************************)
(* Theorems about Voice, for every length of talk, lag of the timers and   *)
(* number of clicks: its types; that the two programs never wait for each  *)
(* other; that samples are heard in the order said (Line is implemented);  *)
(* and that none is lost where reads keep to their lines.                  *)
(*                                                                         *)
(* The last two rest on one picture, Pipe: a sample goes through seven     *)
(* places, each place holds its samples in order, and a place nearer the   *)
(* ear holds older samples than a place farther from it.  Every action     *)
(* moves the oldest samples of one place into the next (Flows).            *)
(***************************************************************************)
EXTENDS Voice, SequenceTheorems, WellFoundedInduction, TLAPS

(* Samples in a string of bytes, and whether they come in the order said.  *)
Nos(b)    == {b[k].number : k \in DOMAIN b} \ {0}
Sorted(b) == \A j, k \in DOMAIN b : j < k /\ b[k].number # 0 => b[j].number < b[k].number
Below(A, B) == \A a \in A : \A c \in B : a < c

-----------------------------------------------------------------------------
(* Strings of bytes.                                                       *)
LEMMA Indices ==
  ASSUME NEW b \in Bytes
  PROVE  /\ Len(b) \in Nat /\ DOMAIN b = 1..Len(b)
         /\ \A k \in DOMAIN b : k \in Nat /\ b[k] \in Sample /\ b[k].number \in Nat
<1>1. Len(b) \in Nat /\ DOMAIN b = 1..Len(b) /\ b \in [1..Len(b) -> Sample]
  BY LenProperties DEF Bytes
<1> QED
  BY <1>1 DEF Sample

LEMMA Joined ==
  ASSUME NEW s \in Bytes, NEW t \in Bytes
  PROVE  /\ s \o t \in Bytes
         /\ \A k \in DOMAIN s : k \in DOMAIN (s \o t) /\ (s \o t)[k] = s[k]
         /\ \A k \in DOMAIN t : Len(s) + k \in DOMAIN (s \o t) /\ (s \o t)[Len(s) + k] = t[k]
         /\ \A k \in DOMAIN (s \o t) : k \in DOMAIN s \/ \E j \in DOMAIN t : k = Len(s) + j
<1>1. /\ s \o t \in Bytes /\ Len(s \o t) = Len(s) + Len(t)
      /\ \A k \in 1..(Len(s) + Len(t)) :
           (s \o t)[k] = IF k <= Len(s) THEN s[k] ELSE t[k - Len(s)]
  BY ConcatProperties DEF Bytes
<1>2. Len(s) \in Nat /\ Len(t) \in Nat /\ DOMAIN s = 1..Len(s) /\ DOMAIN t = 1..Len(t)
      /\ DOMAIN (s \o t) = 1..(Len(s) + Len(t))
  BY <1>1, Indices
<1>3. \A k \in DOMAIN s : k \in DOMAIN (s \o t) /\ (s \o t)[k] = s[k]
  BY <1>1, <1>2
<1>4. ASSUME NEW k \in DOMAIN t
      PROVE  Len(s) + k \in DOMAIN (s \o t) /\ (s \o t)[Len(s) + k] = t[k]
  <2>1. Len(s) + k \in 1..(Len(s) + Len(t)) /\ ~(Len(s) + k <= Len(s)) /\ (Len(s) + k) - Len(s) = k
    BY <1>2
  <2> QED
    BY <1>1, <1>2, <2>1
<1>5. ASSUME NEW k \in DOMAIN (s \o t), k \notin DOMAIN s
      PROVE  \E j \in DOMAIN t : k = Len(s) + j
  <2>1. k - Len(s) \in DOMAIN t /\ k = Len(s) + (k - Len(s))
    BY <1>2, <1>5
  <2> QED
    BY <2>1
<1> QED
  BY <1>1, <1>3, <1>4, <1>5

LEMMA JoinedNos ==
  ASSUME NEW s \in Bytes, NEW t \in Bytes
  PROVE  /\ Nos(s \o t) = Nos(s) \cup Nos(t)
         /\ Newlines(s \o t) # {} <=> Newlines(s) # {} \/ Newlines(t) # {}
         /\ Sorted(s \o t) <=> Sorted(s) /\ Sorted(t) /\ Below(Nos(s), Nos(t))
<1> DEFINE w == s \o t
           m == Len(s)
<1>1. /\ \A k \in DOMAIN s : k \in DOMAIN w /\ w[k] = s[k]
      /\ \A k \in DOMAIN t : m + k \in DOMAIN w /\ w[m + k] = t[k]
      /\ \A k \in DOMAIN w : k \in DOMAIN s \/ \E j \in DOMAIN t : k = m + j
  BY Joined
<1>2. /\ m \in Nat /\ \A k \in DOMAIN s : k \in Nat /\ k <= m /\ s[k].number \in Nat
      /\ \A k \in DOMAIN t : k \in Nat /\ 0 < k /\ t[k].number \in Nat
  BY Indices
<1> HIDE DEF w, m
<1>3. Nos(w) = Nos(s) \cup Nos(t)
  BY <1>1 DEF Nos
<1>4. Newlines(w) # {} <=> Newlines(s) # {} \/ Newlines(t) # {}
  BY <1>1 DEF Newlines
<1>5. ASSUME Sorted(w) PROVE Sorted(s) /\ Sorted(t) /\ Below(Nos(s), Nos(t))
  <2>1. Sorted(s)
    BY <1>1, <1>5 DEF Sorted
  <2>2. Sorted(t)
    <3> SUFFICES ASSUME NEW j \in DOMAIN t, NEW k \in DOMAIN t, j < k, t[k].number # 0
                 PROVE  t[j].number < t[k].number
      BY DEF Sorted
    <3>1. m + j < m + k
      BY <1>2
    <3>2. m + j \in DOMAIN w /\ w[m + j] = t[j] /\ m + k \in DOMAIN w /\ w[m + k] = t[k]
      BY <1>1
    <3> QED
      BY <1>5, <3>1, <3>2 DEF Sorted
  <2>3. Below(Nos(s), Nos(t))
    <3> SUFFICES ASSUME NEW j \in DOMAIN s, NEW k \in DOMAIN t, t[k].number # 0
                 PROVE  s[j].number < t[k].number
      BY DEF Below, Nos
    <3>1. j < m + k
      BY <1>2
    <3>2. j \in DOMAIN w /\ w[j] = s[j] /\ m + k \in DOMAIN w /\ w[m + k] = t[k]
      BY <1>1
    <3> QED
      BY <1>5, <3>1, <3>2 DEF Sorted
  <2> QED
    BY <2>1, <2>2, <2>3
<1>6. ASSUME Sorted(s), Sorted(t), Below(Nos(s), Nos(t)) PROVE Sorted(w)
  <2> SUFFICES ASSUME NEW j \in DOMAIN w, NEW k \in DOMAIN w, j < k, w[k].number # 0
               PROVE  w[j].number < w[k].number
    BY DEF Sorted
  <2>1. CASE k \in DOMAIN s
    <3>1. j \in DOMAIN s
      BY <1>1, <1>2, <2>1
    <3> QED
      BY <1>1, <1>6, <2>1, <3>1 DEF Sorted
  <2>2. CASE k \notin DOMAIN s
    <3>1. PICK q \in DOMAIN t : k = m + q
      BY <1>1, <2>2
    <3>2. CASE j \in DOMAIN s
      <4>1. w[k] = t[q] /\ w[j] = s[j] /\ s[j].number \in Nat /\ t[q].number \in Nat
        BY <1>1, <1>2, <3>1, <3>2
      <4>2. t[q].number \in Nos(t)
        BY <4>1 DEF Nos
      <4>3. CASE s[j].number = 0
        BY <4>1, <4>3
      <4>4. CASE s[j].number \in Nos(s)
        BY <1>6, <4>1, <4>2, <4>4 DEF Below
      <4> QED
        BY <3>2, <4>3, <4>4 DEF Nos
    <3>3. CASE j \notin DOMAIN s
      <4>1. PICK p \in DOMAIN t : j = m + p
        BY <1>1, <3>3
      <4>2. p < q
        BY <1>2, <3>1, <4>1
      <4> QED
        BY <1>1, <1>6, <3>1, <4>1, <4>2 DEF Sorted
    <3> QED
      BY <3>2, <3>3
  <2> QED
    BY <2>1, <2>2
<1> QED
  BY <1>3, <1>4, <1>5, <1>6 DEF w

(* A single byte, and none.                                                *)
LEMMA OneByte ==
  ASSUME NEW b \in Sample
  PROVE  /\ <<b>> \in Bytes /\ Nos(<<b>>) = {b.number} \ {0} /\ Sorted(<<b>>)
         /\ Newlines(<<b>>) # {} <=> IsNewline(b)
         /\ \A s \in Bytes : Append(s, b) = s \o <<b>>
<1>1. <<b>> \in Bytes /\ DOMAIN <<b>> = {1} /\ <<b>>[1] = b
  BY DEF Bytes
<1>2. \A s \in Bytes : Append(s, b) = s \o <<b>>
  BY AppendIsConcat DEF Bytes
<1>3. Nos(<<b>>) = {b.number} \ {0} /\ Sorted(<<b>>) /\ (Newlines(<<b>>) # {} <=> IsNewline(b))
  BY <1>1 DEF Nos, Sorted, Newlines
<1> QED
  BY <1>1, <1>2, <1>3

LEMMA NoBytes == <<>> \in Bytes /\ Nos(<<>>) = {} /\ Sorted(<<>>) /\ Newlines(<<>>) = {}
BY EmptySeq DEF Bytes, Nos, Sorted, Newlines

(* The first n bytes and the rest.                                         *)
LEMMA Split ==
  ASSUME NEW w \in Bytes, NEW n \in 0..Len(w)
  PROVE  /\ SubSeq(w, 1, n) \in Bytes /\ SubSeq(w, n + 1, Len(w)) \in Bytes
         /\ w = SubSeq(w, 1, n) \o SubSeq(w, n + 1, Len(w))
<1>1. Len(w) \in Nat /\ n \in Nat /\ n <= Len(w)
  BY Indices
<1>2. \A k \in 1..Len(w) : w[k] \in Sample
  BY Indices
<1>3. SubSeq(w, 1, n) \in Bytes /\ SubSeq(w, n + 1, Len(w)) \in Bytes
  BY <1>1, <1>2, SubSeqProperties DEF Bytes
<1>4. 1 \in 1..Len(w) + 1 /\ n \in (1 - 1)..Len(w) /\ Len(w) \in n..Len(w)
  BY <1>1
<1>5. SubSeq(w, 1, n) \o SubSeq(w, n + 1, Len(w)) = SubSeq(w, 1, Len(w))
  BY <1>4, ConcatAdjacentSubSeq DEF Bytes
<1> QED
  BY <1>3, <1>5, SubSeqFull DEF Bytes

-----------------------------------------------------------------------------
(* The users, and what a step writes.                                      *)
LEMMA Users ==
  /\ User = {User1, User2} /\ User1 # User2
  /\ \A u \in User : Peer(u) \in User /\ Peer(u) # u /\ Peer(Peer(u)) = u
  /\ \A u, v \in User : v # u => v = Peer(u)
BY VoiceAssumption DEF User, Peer

LEMMA NewlineByte == Newline \in Sample /\ Newline.number = 0 /\ IsNewline(Newline)
BY DEF Newline, Sample, IsNewline, Sound

(* What receive::Start keeps of what it has read: a first part of it.      *)
LEMMA CStringCut ==
  ASSUME NEW b \in Bytes
  PROVE  /\ \E m \in 0..Len(b) : CString(b) = SubSeq(b, 1, m)
         /\ (\A k \in DOMAIN b : b[k].sound # Zero) => CString(b) = b
<1> DEFINE I == {i \in 1..Len(b) : b[i].sound = Zero}
           zero == SelectInSeq(b, LAMBDA c : c.sound = Zero)
<1>1. Len(b) \in Nat /\ DOMAIN b = 1..Len(b)
  BY Indices
<1>2. zero = IF I # {} THEN Min(I) ELSE 0
  BY DEF SelectInSeq
<1>3. I # {} => Min(I) \in I
  <2> SUFFICES ASSUME I # {} PROVE Min(I) \in I
    OBVIOUS
  <2>1. I \subseteq Nat
    BY <1>1
  <2> HIDE DEF I
  <2>2. PICK x \in I : \A y \in I : <<y, x>> \notin OpToRel(<, Nat)
    BY <2>1, WFMin, NatLessThanWellFounded
  <2>3. \A y \in I : ~(y < x)
    BY <2>1, <2>2 DEF OpToRel
  <2>4. \A y \in I : x <= y
    BY <2>1, <2>3
  <2> QED
    BY <2>4 DEF Min
<1>4. CString(b) = IF zero = 0 THEN b ELSE SubSeq(b, 1, zero - 1)
  BY DEF CString
<1> HIDE DEF zero
<1>5. CASE I = {}
  <2>1. CString(b) = b /\ b = SubSeq(b, 1, Len(b))
    BY <1>2, <1>4, <1>5, SubSeqFull DEF Bytes
  <2>2. Len(b) \in 0..Len(b)
    BY <1>1
  <2> QED
    BY <2>1, <2>2
<1>6. CASE I # {}
  <2>1. zero \in 1..Len(b) /\ b[zero].sound = Zero
    BY <1>2, <1>3, <1>6
  <2>2. CString(b) = SubSeq(b, 1, zero - 1) /\ zero - 1 \in 0..Len(b)
    BY <1>1, <1>4, <2>1
  <2> QED
    BY <1>1, <2>1, <2>2
<1> QED
  BY <1>5, <1>6

LEMMA FrontCut ==
  ASSUME NEW b \in Bytes, b # <<>>
  PROVE  /\ Len(b) \in Nat \ {0} /\ Front(b) \in Bytes /\ Len(Front(b)) = Len(b) - 1
         /\ \A k \in DOMAIN Front(b) : k \in DOMAIN b /\ k < Len(b) /\ Front(b)[k] = b[k]
         /\ b = Front(b) \o <<b[Len(b)]>>
<1>1. Len(b) \in Nat \ {0} /\ DOMAIN b = 1..Len(b) /\ \A k \in 1..Len(b) : b[k] \in Sample
  BY Indices, EmptySeq DEF Bytes
<1>2. Front(b) = SubSeq(b, 1, Len(b) - 1)
  BY DEF Front
<1>3. Len(b) - 1 \in 0..Len(b) /\ Len(b) \in Nat
  BY <1>1
<1>4. Front(b) \in Bytes /\ Len(Front(b)) = Len(b) - 1
      /\ \A k \in 1..(Len(b) - 1) : Front(b)[k] = b[k]
  BY <1>1, <1>2, <1>3, SubSeqProperties DEF Bytes
<1>5. b = Front(b) \o SubSeq(b, Len(b), Len(b))
  <2>1. (Len(b) - 1) + 1 = Len(b)
    BY <1>1
  <2> QED
    BY <1>2, <1>3, <2>1, Split
<1>6. SubSeq(b, Len(b), Len(b)) = <<b[Len(b)]>>
  <2> DEFINE t == SubSeq(b, Len(b), Len(b))
             n == Len(b)
  <2>1. n \in Int /\ n \in 1..n /\ \A k \in n..n : b[k] \in Sample
    BY <1>1
  <2>2. t \in Seq(Sample) /\ Len(t) = n - n + 1 /\ \A k \in 1..(n - n + 1) : t[k] = b[n + k - 1]
    BY <2>1, SubSeqProperties
  <2>3. n - n + 1 = 1 /\ n + 1 - 1 = n /\ 1 \in 1..(n - n + 1)
    BY <2>1
  <2>4. t \in Seq(Sample) /\ Len(t) = 1 /\ t[1] = b[Len(b)]
    BY <2>2, <2>3
  <2> HIDE DEF t
  <2>5. t = <<b[Len(b)]>>
    BY <2>4
  <2> QED
    BY <2>5 DEF t
<1>7. DOMAIN Front(b) = 1..(Len(b) - 1)
  BY <1>4, Indices
<1>8. b = Front(b) \o <<b[Len(b)]>>
  BY <1>5, <1>6
<1>9. \A k \in DOMAIN Front(b) : k \in DOMAIN b /\ k < Len(b) /\ Front(b)[k] = b[k]
  BY <1>1, <1>4, <1>7
<1> QED
  BY <1>1, <1>4, <1>8, <1>9

(* So nothing but bytes that were read reaches packetBuffIn. *)
LEMMA Kept ==
  ASSUME NEW b \in Bytes, b # <<>>
  PROVE  LET c == CString(Front(b)) IN
         c \in Bytes /\ Nos(c) \subseteq Nos(b) /\ (Sorted(b) => Sorted(c))
<1> DEFINE f == Front(b)
<1>1. f \in Bytes /\ b = f \o <<b[Len(b)]>> /\ b[Len(b)] \in Sample
  BY FrontCut, Indices
<1>2. <<b[Len(b)]>> \in Bytes
  BY <1>1, OneByte
<1> HIDE DEF f
<1>3. Nos(f) \subseteq Nos(b) /\ (Sorted(b) => Sorted(f))
  <2> DEFINE l == <<b[Len(b)]>>
  <2>1. b = f \o l /\ l \in Bytes
    BY <1>1, <1>2
  <2> HIDE DEF l
  <2>2. Nos(f \o l) = Nos(f) \cup Nos(l) /\ (Sorted(f \o l) => Sorted(f))
    BY <1>1, <2>1, JoinedNos
  <2> QED
    BY <2>1, <2>2
<1>4. PICK m \in 0..Len(f) : CString(f) = SubSeq(f, 1, m)
  BY <1>1, CStringCut
<1>5. /\ SubSeq(f, 1, m) \in Bytes /\ SubSeq(f, m + 1, Len(f)) \in Bytes
      /\ f = SubSeq(f, 1, m) \o SubSeq(f, m + 1, Len(f))
  BY <1>1, Split
<1>6. Nos(SubSeq(f, 1, m)) \subseteq Nos(f) /\ (Sorted(f) => Sorted(SubSeq(f, 1, m)))
  <2> DEFINE s == SubSeq(f, 1, m)
             t == SubSeq(f, m + 1, Len(f))
  <2>1. f = s \o t /\ s \in Bytes /\ t \in Bytes
    BY <1>5
  <2> HIDE DEF s, t
  <2>2. Nos(s \o t) = Nos(s) \cup Nos(t) /\ (Sorted(s \o t) => Sorted(s))
    BY <2>1, JoinedNos
  <2>3. Nos(s) \subseteq Nos(f) /\ (Sorted(f) => Sorted(s))
    BY <2>1, <2>2
  <2> QED
    BY <2>3 DEF s
<1> QED
  BY <1>3, <1>4, <1>5, <1>6 DEF f

-----------------------------------------------------------------------------
(* Queues of buffers: the samples in them, and whether they are in order.  *)
Buffers    == Seq(Bytes)
QNos(q)    == UNION {Nos(q[j]) : j \in DOMAIN q}
QSorted(q) == /\ \A j \in DOMAIN q : Sorted(q[j])
              /\ \A j, k \in DOMAIN q : j < k => Below(Nos(q[j]), Nos(q[k]))

LEMMA NoBuffers == <<>> \in Buffers /\ QNos(<<>>) = {} /\ QSorted(<<>>) /\ Len(<<>>) = 0
BY EmptySeq DEF Buffers, QNos, QSorted

LEMMA OneBuffer ==
  ASSUME NEW b \in Bytes
  PROVE  /\ <<b>> \in Buffers /\ Len(<<b>>) = 1 /\ Head(<<b>>) = b /\ <<b>> # <<>>
         /\ QNos(<<b>>) = Nos(b) /\ (Sorted(b) => QSorted(<<b>>))
<1>1. /\ <<b>> \in Buffers /\ Len(<<b>>) = 1 /\ Head(<<b>>) = b /\ <<b>> # <<>>
      /\ DOMAIN <<b>> = {1} /\ <<b>>[1] = b
  BY DEF Buffers
<1>2. QNos(<<b>>) = Nos(b)
  BY <1>1 DEF QNos
<1>3. Sorted(b) => QSorted(<<b>>)
  BY <1>1 DEF QSorted
<1> QED
  BY <1>1, <1>2, <1>3

LEMMA Queued ==
  ASSUME NEW q \in Buffers, NEW b \in Bytes
  PROVE  /\ Append(q, b) \in Buffers /\ QNos(Append(q, b)) = QNos(q) \cup Nos(b)
         /\ QSorted(q) /\ Sorted(b) /\ Below(QNos(q), Nos(b)) => QSorted(Append(q, b))
<1> DEFINE a == Append(q, b)
           n == Len(q) + 1
<1>1. /\ a \in Buffers /\ Len(q) \in Nat /\ DOMAIN q = 1..Len(q) /\ DOMAIN a = 1..n
      /\ a[n] = b /\ \A k \in 1..Len(q) : a[k] = q[k]
  BY AppendProperties, LenProperties DEF Buffers
<1>2. DOMAIN a = DOMAIN q \cup {n} /\ a[n] = b /\ n \notin DOMAIN q
      /\ \A k \in DOMAIN q : a[k] = q[k] /\ k \in Nat /\ k < n
  BY <1>1
<1>3. n \in Nat
  BY <1>1
<1> HIDE DEF a, n
<1>4. QNos(a) = QNos(q) \cup Nos(b)
  BY <1>2 DEF QNos
<1>5. ASSUME QSorted(q), Sorted(b), Below(QNos(q), Nos(b)) PROVE QSorted(a)
  <2>1. \A j \in DOMAIN a : Sorted(a[j])
    BY <1>2, <1>5 DEF QSorted
  <2>2. ASSUME NEW j \in DOMAIN a, NEW k \in DOMAIN a, j < k
        PROVE  Below(Nos(a[j]), Nos(a[k]))
    <3>1. j \in DOMAIN q
      BY <1>2, <1>3, <2>2
    <3>2. CASE k \in DOMAIN q
      BY <1>2, <1>5, <2>2, <3>1, <3>2 DEF QSorted
    <3>3. CASE k = n
      <4>1. Nos(a[j]) \subseteq QNos(q)
        BY <1>2, <3>1 DEF QNos
      <4>2. Nos(a[k]) = Nos(b)
        BY <1>2, <3>3
      <4> QED
        BY <1>5, <4>1, <4>2 DEF Below
    <3> QED
      BY <1>2, <3>2, <3>3
  <2> QED
    BY <2>1, <2>2 DEF QSorted
<1> QED
  BY <1>1, <1>4, <1>5 DEF a

LEMMA Taken ==
  ASSUME NEW q \in Buffers, q # <<>>
  PROVE  /\ Head(q) \in Bytes /\ Tail(q) \in Buffers /\ Len(Tail(q)) = Len(q) - 1
         /\ QNos(q) = Nos(Head(q)) \cup QNos(Tail(q))
         /\ QSorted(q) => /\ Sorted(Head(q)) /\ QSorted(Tail(q))
                          /\ Below(Nos(Head(q)), QNos(Tail(q)))
<1> DEFINE h == Head(q)
           t == Tail(q)
<1>1. /\ h \in Bytes /\ t \in Buffers /\ Len(t) = Len(q) - 1
      /\ Len(q) \in Nat \ {0} /\ Len(t) \in Nat /\ h = q[1]
      /\ DOMAIN q = 1..Len(q) /\ DOMAIN t = 1..Len(t)
      /\ \A k \in 1..Len(t) : t[k] = q[k + 1]
  BY HeadTailProperties, LenProperties, EmptySeq DEF Buffers
<1>2. /\ 1 \in DOMAIN q /\ h = q[1]
      /\ \A k \in DOMAIN t : k + 1 \in DOMAIN q /\ t[k] = q[k + 1] /\ k \in Nat /\ 1 < k + 1
      /\ \A k \in DOMAIN q : k = 1 \/ \E j \in DOMAIN t : k = j + 1
  <2>1. 1 \in DOMAIN q /\ h = q[1]
    BY <1>1
  <2>2. \A k \in DOMAIN t : k + 1 \in DOMAIN q /\ t[k] = q[k + 1] /\ k \in Nat /\ 1 < k + 1
    BY <1>1
  <2>3. ASSUME NEW k \in DOMAIN q, k # 1 PROVE \E j \in DOMAIN t : k = j + 1
    <3>1. k - 1 \in DOMAIN t /\ k = (k - 1) + 1
      BY <1>1, <2>3
    <3> QED
      BY <3>1
  <2> QED
    BY <2>1, <2>2, <2>3
<1> HIDE DEF h, t
<1>3. QNos(q) = Nos(h) \cup QNos(t)
  BY <1>2 DEF QNos
<1>4. ASSUME QSorted(q) PROVE Sorted(h) /\ QSorted(t) /\ Below(Nos(h), QNos(t))
  <2>1. Sorted(h) /\ \A j \in DOMAIN t : Sorted(t[j])
    BY <1>2, <1>4 DEF QSorted
  <2>2. ASSUME NEW j \in DOMAIN t, NEW k \in DOMAIN t, j < k
        PROVE  Below(Nos(t[j]), Nos(t[k]))
    <3>1. j + 1 < k + 1
      BY <1>2, <2>2
    <3> QED
      BY <1>2, <1>4, <3>1 DEF QSorted
  <2>3. \A k \in DOMAIN t : Below(Nos(h), Nos(t[k]))
    BY <1>2, <1>4 DEF QSorted
  <2>4. Below(Nos(h), QNos(t))
    BY <2>3 DEF Below, QNos
  <2> QED
    BY <2>1, <2>2, <2>4 DEF QSorted
<1> QED
  BY <1>1, <1>3, <1>4 DEF h, t

(* What is heard of a buffer.                                              *)
LEMMA NumbersHeard ==
  ASSUME NEW b \in Bytes
  PROVE  /\ Numbers(b) \in Seq(Nat) /\ DOMAIN Numbers(b) = DOMAIN b
         /\ \A k \in DOMAIN b : Numbers(b)[k] = b[k].number
         /\ Range(Numbers(b)) \ {0} = Nos(b)
<1>1. Len(b) \in Nat /\ DOMAIN b = 1..Len(b) /\ \A k \in DOMAIN b : b[k].number \in Nat
  BY Indices
<1>2. /\ DOMAIN Numbers(b) = DOMAIN b /\ \A k \in DOMAIN b : Numbers(b)[k] = b[k].number
      /\ Numbers(b) \in [1..Len(b) -> Nat]
  BY <1>1 DEF Numbers
<1>3. Numbers(b) \in Seq(Nat)
  BY <1>1, <1>2, SeqDef
<1>4. Range(Numbers(b)) \ {0} = Nos(b)
  BY <1>2 DEF Range, Nos
<1> QED
  BY <1>2, <1>3, <1>4

-----------------------------------------------------------------------------
(* The types, in parts.                                                    *)
Controls ==
  /\ stage \in [User -> {"off", "first", "second", "loop", "reading", "ended"}]
  /\ connected \in [User -> BOOLEAN] /\ gaveUp \in [User -> BOOLEAN]
  /\ isMute \in [User -> BOOLEAN] /\ recording \in [User -> BOOLEAN]
  /\ bunched \in [User -> SUBSET Nat] /\ ticks \in [User -> 0..MaxTicks]
  /\ polls \in [User -> Nat] /\ mutes \in [User -> Nat] /\ quits \in 0..MaxQuits
Strings == buff \in [User -> Bytes] /\ wire \in [User -> Bytes] /\ data \in [User -> Bytes]
Queues  == out \in [User -> Buffers] /\ in \in [User -> Buffers]
Playing == playing \in [User -> Buffers] /\ \A u \in User : Len(playing[u]) <= 1
OutsideEmpty == \A u \in User : stage[u] \notin {"reading", "ended"} => data[u] = <<>>
Speech  == said \in [User -> Nat] /\ heard \in [User -> Seq(Nat)]

LEMMA Types ==
  TypeOK <=> Controls /\ Strings /\ Queues /\ Playing /\ OutsideEmpty /\ Speech
BY DEF TypeOK, Controls, Strings, Queues, Playing, OutsideEmpty, Speech, Buffers

LEMMA BunchedNos ==
  ASSUME NEW b \in Bytes
  PROVE  /\ Bunched(b) \subseteq Nos(b)
         /\ Mangled(b) => Bunched(b) = Nos(b)
BY NumbersHeard DEF Bunched

LEMMA NosTypes == \A b \in Bytes : Nos(b) \subseteq Nat
<1> SUFFICES ASSUME NEW b \in Bytes PROVE Nos(b) \subseteq Nat
  OBVIOUS
<1>1. \A k \in DOMAIN b : b[k].number \in Nat
  BY Indices
<1> QED
  BY <1>1 DEF Nos

LEMMA InitTypes == Init => TypeOK
<1> SUFFICES ASSUME Init PROVE TypeOK
  OBVIOUS
<1>1. <<>> \in Bytes /\ <<>> \in Buffers /\ Len(<<>>) = 0 /\ <<>> \in Seq(Nat)
  BY NoBytes, NoBuffers
<1>2. 0 \in 0..MaxTicks /\ 0 \in 0..MaxQuits /\ TRUE \in BOOLEAN /\ FALSE \in BOOLEAN
  BY VoiceAssumption
<1>3. Controls
  BY <1>2 DEF Init, Controls
<1>4. Strings /\ Queues /\ OutsideEmpty
  BY <1>1 DEF Init, Strings, Queues, OutsideEmpty
<1>5. Playing
  BY <1>1 DEF Init, Playing
<1>6. Speech
  BY <1>1 DEF Init, Speech
<1> QED
  BY <1>3, <1>4, <1>5, <1>6, Types

(* What each kind of step leaves alone.                                    *)
LEMMA NextTypes == TypeOK /\ [Next]_vars => TypeOK'
<1> SUFFICES ASSUME TypeOK, [Next]_vars PROVE TypeOK'
  OBVIOUS
<1>1. Controls /\ Strings /\ Queues /\ Playing /\ OutsideEmpty /\ Speech
  BY Types
<1>2. Controls' /\ Strings' /\ Queues' /\ Playing' /\ OutsideEmpty' /\ Speech' => TypeOK'
  BY Types, PTL
<1>3. SUFFICES Controls' /\ Strings' /\ Queues' /\ Playing' /\ OutsideEmpty' /\ Speech'
  BY <1>2
<1>4. CASE UNCHANGED vars
  <2>1. /\ UNCHANGED <<stage, connected, gaveUp, isMute, recording, buff, out, in, ticks, wire>>
        /\ UNCHANGED <<data, bunched, polls, playing, said, heard, mutes, quits>>
    BY <1>4 DEF vars, setup, recorder, queues, link, player, speech
  <2> QED
    BY <1>1, <2>1 DEF Controls, Strings, Queues, Playing, OutsideEmpty, Speech
<1>5. ASSUME NEW u \in User, ByUser(u) \/ SetUp(u) \/ SendFails(u) \/ Start(u)
      PROVE  Controls' /\ Strings' /\ Queues' /\ Playing' /\ OutsideEmpty' /\ Speech'
  <2> USE DEF setup, recorder, queues, link, player, speech
  <2>1. CASE Begin(u)
    BY <1>1, <2>1 DEF Begin, Controls, Strings, Queues, Playing, OutsideEmpty, Speech
  <2>2. CASE Speak(u)
    <3>1. /\ UNCHANGED <<stage, connected, gaveUp, isMute, recording, out, in, ticks, wire>>
          /\ UNCHANGED <<data, bunched, polls, playing, heard, mutes, quits>>
          /\ said' = [said EXCEPT ![u] = @ + 1]
      BY <2>2 DEF Speak
    <3>2. said' \in [User -> Nat] /\ said'[u] = said[u] + 1 /\ said[u] \in Nat /\ said[u] < MaxSaid[u]
      BY <1>1, <2>2, <3>1 DEF Speech, Speak
    <3>3. PICK sound \in Sounds[said'[u]] :
            buff' = [buff EXCEPT ![u] = Append(@, [number |-> said'[u], sound |-> sound])]
      BY <2>2 DEF Speak
    <3>4. Sounds[said'[u]] \subseteq Sound
      <4>1. said'[u] \in 1..Len(Sounds) /\ Sounds \in Seq(SUBSET Sound)
        BY <3>2, VoiceAssumption
      <4> QED
        BY <4>1
    <3>5. [number |-> said'[u], sound |-> sound] \in Sample
      BY <3>2, <3>4 DEF Sample
    <3>6. Append(buff[u], [number |-> said'[u], sound |-> sound]) \in Bytes
      BY <1>1, <3>5, AppendProperties DEF Bytes, Strings
    <3>7. buff' \in [User -> Bytes]
      BY <1>1, <3>3, <3>6 DEF Strings
    <3> QED
      BY <1>1, <3>1, <3>2, <3>7 DEF Controls, Strings, Queues, Playing, OutsideEmpty, Speech
  <2>3. CASE ToggleMuteState(u)
    BY <1>1, <2>3 DEF ToggleMuteState, Controls, Strings, Queues, Playing, OutsideEmpty, Speech
  <2>4. CASE Quit(u)
    BY <1>1, <2>4, VoiceAssumption
    DEF Quit, Controls, Strings, Queues, Playing, OutsideEmpty, Speech
  <2>5. CASE Connect(u) \/ Accept(u)
    <3>1. /\ UNCHANGED <<isMute, buff, out, in, ticks, wire, data, bunched, playing>>
          /\ UNCHANGED <<said, heard, mutes, quits>>
          /\ stage[u] \in {"first", "second"} /\ Advance(u)
      BY <2>5 DEF Connect, Accept, Connecting, Accepting
    <3>2. connected' \in [User -> BOOLEAN] /\ gaveUp' \in [User -> BOOLEAN]
      BY <1>1, <2>5 DEF Connect, Accept, Controls
    <3>3. /\ stage' \in [User -> {"off", "first", "second", "loop", "reading", "ended"}]
          /\ \A v \in User : stage'[v] = stage[v] \/ v = u
      BY <1>1, <3>1 DEF Advance, Controls
    <3>4. polls' \in [User -> Nat]
      BY <1>1, <3>1 DEF Advance, Controls
    <3>5. recording' \in [User -> BOOLEAN]
      <4>1. (~isMute[u]) \in BOOLEAN
        OBVIOUS
      <4> QED
        BY <1>1, <3>1, <4>1 DEF Advance, Controls
    <3>6. OutsideEmpty'
      BY <1>1, <3>1, <3>3 DEF OutsideEmpty
    <3> QED
      BY <1>1, <3>1, <3>2, <3>3, <3>4, <3>5, <3>6 DEF Controls, Strings, Queues, Playing, Speech
  <2>6. CASE SendFails(u)
    BY <1>1, <2>6 DEF SendFails, Controls, Strings, Queues, Playing, OutsideEmpty, Speech
  <2>7. CASE Start(u)
    BY <1>1, <2>7 DEF Start, InLoop, Controls, Strings, Queues, Playing, OutsideEmpty, Speech
  <2> QED
    BY <1>5, <2>1, <2>2, <2>3, <2>4, <2>5, <2>6, <2>7 DEF ByUser, SetUp
<1>6. ASSUME NEW u \in User, StopRecording(u) \/ StartSending(u)
      PROVE  Controls' /\ Strings' /\ Queues' /\ Playing' /\ OutsideEmpty' /\ Speech'
  <2> USE DEF setup, recorder, queues, link, player, speech
  <2>1. CASE StopRecording(u)
    <3>1. Append(out[u], buff[u]) \in Buffers /\ <<>> \in Bytes
      BY <1>1, Queued, NoBytes DEF Strings, Queues
    <3> QED
      BY <1>1, <2>1, <3>1
      DEF StopRecording, Controls, Strings, Queues, Playing, OutsideEmpty, Speech
  <2>2. CASE StartSending(u)
    <3>1. /\ UNCHANGED <<stage, connected, gaveUp, isMute, recording, buff, in, data, bunched>>
          /\ UNCHANGED <<polls, playing, said, heard, mutes, quits>>
          /\ ticks' = [ticks EXCEPT ![u] = @ + 1] /\ ticks[u] < MaxTicks
      BY <2>2 DEF StartSending
    <3>2. ticks' \in [User -> 0..MaxTicks]
      BY <1>1, <3>1, VoiceAssumption DEF Controls
    <3>3. wire' \in [User -> Bytes] /\ out' \in [User -> Buffers]
      <4>1. wire[u] \in Bytes /\ out[u] \in Buffers
        BY <1>1 DEF Strings, Queues
      <4>2. CASE out[u] = <<>>
        <5>1. Append(wire[u], Newline) \in Bytes
          BY <4>1, NewlineByte, AppendProperties DEF Bytes
        <5> QED
          BY <1>1, <2>2, <4>2, <5>1 DEF StartSending, Strings, Queues
      <4>3. CASE out[u] # <<>>
        <5>1. Head(out[u]) \in Bytes /\ Tail(out[u]) \in Buffers
          BY <4>1, <4>3, Taken
        <5>2. Append(Head(out[u]), Newline) \in Bytes
          BY <5>1, NewlineByte, AppendProperties DEF Bytes
        <5>3. wire[u] \o Append(Head(out[u]), Newline) \in Bytes
          BY <4>1, <5>2, Joined
        <5> QED
          BY <1>1, <2>2, <4>3, <5>1, <5>3 DEF StartSending, Strings, Queues
      <4> QED
        BY <4>2, <4>3
    <3> QED
      BY <1>1, <3>1, <3>2, <3>3 DEF Controls, Strings, Queues, Playing, OutsideEmpty, Speech
  <2> QED
    BY <1>6, <2>1, <2>2
<1>7. ASSUME NEW u \in User, Receive(u)
      PROVE  Controls' /\ Strings' /\ Queues' /\ Playing' /\ OutsideEmpty' /\ Speech'
  <2> USE DEF setup, recorder, queues, link, player, speech
  <2>1. CASE ReadSome(u)
    <3>1. /\ UNCHANGED <<connected, gaveUp, isMute, recording, buff, out, in, ticks, bunched>>
          /\ UNCHANGED <<polls, playing, said, heard, mutes, quits>>
          /\ stage[u] = "reading"
      BY <2>1 DEF ReadSome
    <3>2. CASE UNCHANGED <<wire, data>> /\ stage' = [stage EXCEPT ![u] = "ended"]
      BY <1>1, <3>1, <3>2 DEF Controls, Strings, Queues, Playing, OutsideEmpty, Speech
    <3>3. CASE UNCHANGED stage
      <4>1. PICK n \in DOMAIN wire[Peer(u)] :
              /\ data' = [data EXCEPT ![u] = @ \o SubSeq(wire[Peer(u)], 1, n)]
              /\ wire' = [wire EXCEPT ![Peer(u)] = SubSeq(@, n + 1, Len(@))]
        BY <1>1, <2>1, <3>1, <3>3 DEF ReadSome, Controls
      <4>2. wire[Peer(u)] \in Bytes /\ data[u] \in Bytes /\ Peer(u) \in User
        BY <1>1, Users DEF Strings
      <4>3. n \in 0..Len(wire[Peer(u)])
        BY <4>2, Indices
      <4>4. /\ SubSeq(wire[Peer(u)], 1, n) \in Bytes
            /\ SubSeq(wire[Peer(u)], n + 1, Len(wire[Peer(u)])) \in Bytes
        BY <4>2, <4>3, Split
      <4>5. data[u] \o SubSeq(wire[Peer(u)], 1, n) \in Bytes
        BY <4>2, <4>4, Joined
      <4>6. Strings'
        BY <1>1, <3>1, <4>1, <4>2, <4>4, <4>5 DEF Strings
      <4>7. Controls'
        BY <1>1, <3>1, <3>3 DEF Controls
      <4>8. OutsideEmpty'
        BY <1>1, <3>1, <3>3, <4>1 DEF OutsideEmpty, Strings
      <4> QED
        BY <1>1, <3>1, <4>6, <4>7, <4>8 DEF Queues, Playing, Speech
    <3> QED
      BY <2>1, <3>2, <3>3 DEF ReadSome
  <2>2. CASE PushData(u)
    <3>1. /\ UNCHANGED <<connected, gaveUp, isMute, recording, buff, out, wire>>
          /\ UNCHANGED <<polls, playing, said, heard, mutes, quits>>
          /\ stage' = [stage EXCEPT ![u] = "loop"] /\ data' = [data EXCEPT ![u] = <<>>]
          /\ ticks' = [ticks EXCEPT ![u] = 0] /\ Newlines(data[u]) # {}
          /\ bunched' = [bunched EXCEPT ![u] = @ \cup Bunched(data[u])]
      BY <2>2 DEF PushData, Done
    <3>2. in' \in [User -> Buffers]
      <4>1. data[u] \in Bytes /\ data[u] # <<>> /\ in[u] \in Buffers
        BY <1>1, <3>1, NoBytes DEF Strings, Queues
      <4>2. CString(Front(data[u])) \in Bytes
        BY <4>1, Kept
      <4>3. Append(in[u], CString(Front(data[u]))) \in Buffers
        BY <4>1, <4>2, Queued
      <4> QED
        BY <1>1, <2>2, <4>3 DEF PushData, Queues
    <3>3. <<>> \in Bytes /\ 0 \in 0..MaxTicks
      BY NoBytes, VoiceAssumption
    <3>4. bunched' \in [User -> SUBSET Nat]
      <4>1. Bunched(data[u]) \subseteq Nat
        BY <1>1, BunchedNos, NosTypes DEF Strings
      <4> QED
        BY <1>1, <3>1, <4>1 DEF Controls
    <3> QED
      BY <1>1, <3>1, <3>2, <3>3, <3>4 DEF Controls, Strings, Queues, Playing, OutsideEmpty, Speech
  <2> QED
    BY <1>7, <2>1, <2>2 DEF Receive
<1>8. ASSUME NEW u \in User, Run(u) \/ Idle(u)
      PROVE  Controls' /\ Strings' /\ Queues' /\ Playing' /\ OutsideEmpty' /\ Speech'
  <2> USE DEF setup, recorder, queues, link, player, speech
  <2>1. CASE in[u] # <<>> /\ Run(u)
    <3>1. Head(in[u]) \in Bytes /\ Tail(in[u]) \in Buffers
      BY <1>1, <2>1, Taken DEF Queues
    <3>2. <<Head(in[u])>> \in Buffers /\ Len(<<Head(in[u])>>) <= 1
      BY <3>1, OneBuffer
    <3> QED
      BY <1>1, <2>1, <3>1, <3>2 DEF Run, Controls, Strings, Queues, Playing, OutsideEmpty, Speech
  <2>2. CASE Idle(u)
    <3>1. /\ UNCHANGED <<stage, connected, gaveUp, isMute, recording, buff, out, wire, data>>
          /\ UNCHANGED <<ticks, bunched, said, mutes, quits>>
          /\ playing[u] # <<>>
          /\ heard' = [heard EXCEPT ![Peer(u)] = @ \o Numbers(Head(playing[u]))]
      BY <2>2 DEF Idle, Finished
    <3>2. heard' \in [User -> Seq(Nat)]
      <4>1. Head(playing[u]) \in Bytes /\ Peer(u) \in User
        BY <1>1, <3>1, Taken, Users DEF Playing
      <4>2. heard[Peer(u)] \o Numbers(Head(playing[u])) \in Seq(Nat)
        BY <1>1, <4>1, NumbersHeard, ConcatProperties DEF Speech
      <4> QED
        BY <1>1, <3>1, <4>2 DEF Speech
    <3>3. Queues' /\ Playing' /\ polls' \in [User -> Nat]
      <4>1. CASE in[u] = <<>>
        <5>1. <<>> \in Buffers /\ Len(<<>>) <= 1
          BY NoBuffers
        <5>2. Queues' /\ Playing'
          BY <1>1, <2>2, <3>1, <4>1, <5>1 DEF Idle, Queues, Playing
        <5>3. polls' \in [User -> Nat]
          BY <1>1, <2>2, <4>1 DEF Idle, Controls
        <5> QED
          BY <5>2, <5>3
      <4>2. CASE in[u] # <<>>
        <5>1. Head(in[u]) \in Bytes /\ Tail(in[u]) \in Buffers
          BY <1>1, <4>2, Taken DEF Queues
        <5>2. <<Head(in[u])>> \in Buffers /\ Len(<<Head(in[u])>>) <= 1
          BY <5>1, OneBuffer
        <5>3. Queues' /\ Playing'
          BY <1>1, <2>2, <3>1, <4>2, <5>1, <5>2 DEF Idle, Queues, Playing
        <5>4. polls' \in [User -> Nat]
          <6>1. polls' = [polls EXCEPT ![u] = @ + 1] /\ polls \in [User -> Nat]
            BY <1>1, <2>2, <4>2 DEF Idle, Controls
          <6> QED
            BY <6>1
        <5> QED
          BY <5>3, <5>4
      <4> QED
        BY <4>1, <4>2
    <3> QED
      BY <1>1, <3>1, <3>2, <3>3 DEF Controls, Strings, OutsideEmpty, Speech
  <2> QED
    BY <1>8, <2>1, <2>2 DEF Run
<1> QED
  BY <1>4, <1>5, <1>6, <1>7, <1>8 DEF Next

(* The types of Voice hold throughout.                                     *)
THEOREM TypeCorrect == Spec => []TypeOK
BY InitTypes, NextTypes, PTL DEF Spec

-----------------------------------------------------------------------------
(* The two never wait for each other: who reads has sent a line since its  *)
(* last read, and if both have, the first of the lines sent is not yet     *)
(* taken from data.                                                        *)
Owed(u) == Newlines(wire[u]) # {} \/ Newlines(data[Peer(u)]) # {}

SentFirst == \A u \in User : stage[u] = "reading" => ticks[u] > 0
LineDue   == (\A u \in User : ticks[u] > 0) => \E u \in User : Owed(u)

LEMMA TurnsInit == Init => SentFirst /\ LineDue
<1>1. \A u \in User : ~(0 > 0) /\ "off" # "reading"
  OBVIOUS
<1> QED
  BY <1>1, Users DEF Init, SentFirst, LineDue

LEMMA TurnsNext == TypeOK /\ SentFirst /\ LineDue /\ [Next]_vars => SentFirst' /\ LineDue'
<1> SUFFICES ASSUME TypeOK, SentFirst, LineDue, [Next]_vars PROVE SentFirst' /\ LineDue'
  OBVIOUS
<1>1. Controls /\ Strings /\ Queues
  BY Types
<1> USE DEF setup, recorder, queues, link, player, speech
<1>2. CASE UNCHANGED <<ticks, wire, data>> /\ \A u \in User : stage'[u] = "reading" => ticks[u] > 0
  BY <1>2 DEF SentFirst, LineDue, Owed
<1>3. ASSUME NEW u \in User,
             \/ ByUser(u) \/ SetUp(u) \/ StopRecording(u) \/ SendFails(u) \/ Start(u) \/ Run(u) \/ Idle(u)
      PROVE  SentFirst' /\ LineDue'
  <2>1. UNCHANGED <<ticks, wire, data>>
    BY <1>3 DEF ByUser, Begin, Speak, ToggleMuteState, Quit, SetUp, Connect, Accept, StopRecording,
                SendFails, Start, Run, Idle, Finished
  <2>2. stage' = stage \/ \E s : stage' = [stage EXCEPT ![u] = s] /\ (s = "reading" => ticks[u] > 0)
    BY <1>3 DEF ByUser, Begin, Speak, ToggleMuteState, Quit, SetUp, Connect, Accept, Advance,
                StopRecording, SendFails, Start, Run, Idle, Finished
  <2>3. \A v \in User : stage'[v] = "reading" => ticks[v] > 0
    BY <1>1, <2>2 DEF SentFirst, Controls
  <2> QED
    BY <1>2, <2>1, <2>3
<1>4. ASSUME NEW u \in User, StartSending(u) PROVE SentFirst' /\ LineDue'
  <2>1. UNCHANGED <<stage, data>> /\ ticks' = [ticks EXCEPT ![u] = @ + 1]
    BY <1>4 DEF StartSending
  <2>2. SentFirst'
    BY <1>1, <2>1 DEF SentFirst, Controls
  <2>3. <<Newline>> \in Bytes /\ Newlines(<<Newline>>) # {} /\ wire[u] \in Bytes /\ out[u] \in Buffers
    BY <1>1, NewlineByte, OneByte DEF Strings, Queues
  <2>4. Newlines(wire'[u]) # {}
    <3>1. CASE out[u] = <<>>
      <4>1. wire'[u] = wire[u] \o <<Newline>>
        BY <1>1, <1>4, <2>3, <3>1, NewlineByte, OneByte DEF StartSending, Strings
      <4> QED
        BY <2>3, <4>1, JoinedNos
    <3>2. CASE out[u] # <<>>
      <4>1. Head(out[u]) \in Bytes
        BY <2>3, <3>2, Taken
      <4>2. Append(Head(out[u]), Newline) = Head(out[u]) \o <<Newline>>
        BY <4>1, NewlineByte, OneByte
      <4>3. PICK t : t = Head(out[u]) \o <<Newline>>
        OBVIOUS
      <4>4. t \in Bytes /\ Newlines(t) # {}
        BY <2>3, <4>1, <4>3, Joined, JoinedNos
      <4>5. wire'[u] = wire[u] \o t
        BY <1>1, <1>4, <3>2, <4>2, <4>3 DEF StartSending, Strings
      <4> QED
        BY <2>3, <4>4, <4>5, JoinedNos
    <3> QED
      BY <3>1, <3>2
  <2> QED
    BY <2>2, <2>4 DEF LineDue, Owed
<1>5. ASSUME NEW u \in User, ReadSome(u) PROVE SentFirst' /\ LineDue'
  <2>1. UNCHANGED ticks /\ \A v \in User : stage'[v] = "reading" => stage[v] = "reading"
    BY <1>1, <1>5 DEF ReadSome, Controls
  <2>2. SentFirst'
    BY <2>1 DEF SentFirst
  <2>3. ASSUME NEW n \in DOMAIN wire[Peer(u)],
               data' = [data EXCEPT ![u] = @ \o SubSeq(wire[Peer(u)], 1, n)],
               wire' = [wire EXCEPT ![Peer(u)] = SubSeq(@, n + 1, Len(@))]
        PROVE  \A v \in User : Owed(v) => Owed(v)'
    <3>1. Peer(u) \in User /\ Peer(u) # u /\ Peer(Peer(u)) = u /\ \A v \in User : v = u \/ v = Peer(u)
      BY Users
    <3>2. PICK w, x, y, d : /\ w = wire[Peer(u)] /\ d = data[u]
                            /\ x = SubSeq(w, 1, n) /\ y = SubSeq(w, n + 1, Len(w))
      OBVIOUS
    <3>3. w \in Bytes /\ d \in Bytes /\ n \in 0..Len(w)
      BY <1>1, <2>3, <3>1, <3>2, Indices DEF Strings
    <3>4. x \in Bytes /\ y \in Bytes /\ w = x \o y
      BY <3>2, <3>3, Split
    <3>5. data'[u] = d \o x /\ wire'[Peer(u)] = y /\ data'[Peer(u)] = data[Peer(u)] /\ wire'[u] = wire[u]
      BY <1>1, <2>3, <3>1, <3>2 DEF Strings
    <3>6. /\ Newlines(w) # {} <=> Newlines(x) # {} \/ Newlines(y) # {}
          /\ Newlines(d \o x) # {} <=> Newlines(d) # {} \/ Newlines(x) # {}
      BY <3>3, <3>4, JoinedNos
    <3>7. Owed(Peer(u)) => Owed(Peer(u))'
      BY <3>1, <3>2, <3>5, <3>6 DEF Owed
    <3>8. Owed(u) => Owed(u)'
      BY <3>5 DEF Owed
    <3> QED
      BY <3>1, <3>7, <3>8
  <2>4. UNCHANGED <<wire, data>> => \A v \in User : Owed(v) => Owed(v)'
    BY DEF Owed
  <2>5. \A v \in User : Owed(v) => Owed(v)'
    BY <1>5, <2>3, <2>4 DEF ReadSome
  <2> QED
    BY <2>1, <2>2, <2>5 DEF LineDue
<1>6. ASSUME NEW u \in User, PushData(u) PROVE SentFirst' /\ LineDue'
  <2>1. ticks' = [ticks EXCEPT ![u] = 0] /\ stage' = [stage EXCEPT ![u] = "loop"]
    BY <1>6 DEF PushData, Done
  <2>2. ~(ticks'[u] > 0)
    BY <1>1, <2>1 DEF Controls
  <2> QED
    BY <1>1, <2>1, <2>2 DEF SentFirst, LineDue, Controls
<1>7. CASE UNCHANGED vars
  BY <1>2, <1>7 DEF vars, SentFirst
<1> QED
  BY <1>3, <1>4, <1>5, <1>6, <1>7 DEF Next, Receive

LEMMA TurnsSuffice == SentFirst /\ LineDue => NeverBothBlocked
<1> SUFFICES ASSUME SentFirst, LineDue, Blocked(User1), Blocked(User2) PROVE FALSE
  BY DEF NeverBothBlocked
<1>1. \A u \in User : Blocked(u)
  BY Users
<1>2. PICK u \in User : Owed(u)
  BY <1>1 DEF SentFirst, LineDue, Blocked
<1>3. Peer(u) \in User /\ Peer(Peer(u)) = u
  BY Users
<1>4. wire[u] = <<>> /\ Newlines(data[Peer(u)]) = {}
  BY <1>1, <1>3 DEF Blocked
<1> QED
  BY <1>2, <1>4, NoBytes DEF Owed

(* The programs never wait for each other's line, both with their event    *)
(* loops stopped: each sends a line, even an empty one, between its reads. *)
THEOREM NeverDeadlocked == Spec => []NeverBothBlocked
<1>1. TypeOK /\ SentFirst /\ LineDue /\ [Next]_vars => (TypeOK /\ SentFirst /\ LineDue)'
  BY NextTypes, TurnsNext
<1>2. Init => TypeOK /\ SentFirst /\ LineDue
  BY InitTypes, TurnsInit
<1> QED
  BY <1>1, <1>2, TurnsSuffice, PTL DEF Spec

-----------------------------------------------------------------------------
(* What u says passes through seven places on its way, the last it is      *)
(* heard at first: each sample in one of them, the older the further.      *)
Pipe(u) ==
  << Range(heard[u]) \ {0}, QNos(playing[Peer(u)]), QNos(in[Peer(u)]), Nos(data[Peer(u)]),
     Nos(wire[u]), QNos(out[u]), Nos(buff[u]) >>

Layered(F) == \A i, j \in 1..7 : i < j => Below(F[i], F[j])
Within(F, n) == \A i \in 1..7 : F[i] \subseteq 1..n
All(F) == UNION {F[i] : i \in 1..7}

LEMMA Places ==
  \A u : /\ Pipe(u)[1] = Range(heard[u]) \ {0} /\ Pipe(u)[2] = QNos(playing[Peer(u)])
         /\ Pipe(u)[3] = QNos(in[Peer(u)]) /\ Pipe(u)[4] = Nos(data[Peer(u)])
         /\ Pipe(u)[5] = Nos(wire[u]) /\ Pipe(u)[6] = QNos(out[u]) /\ Pipe(u)[7] = Nos(buff[u])
BY DEF Pipe

(* Samples go on by one place, the oldest of it first; some may get lost.  *)
Flows(F, G, k, A, C) ==
  /\ \A i \in 1..7 : i # k /\ i # k + 1 => G[i] = F[i]
  /\ G[k] \subseteq F[k] \cup A /\ G[k + 1] = C
  /\ F[k + 1] = A \cup C /\ Below(A, C)

LEMMA FlowOrder ==
  ASSUME NEW F, NEW G, NEW k \in 1..6, NEW A, NEW C, Flows(F, G, k, A, C), Layered(F)
  PROVE  Layered(G) /\ \A n \in Nat : Within(F, n) => Within(G, n)
<1>1. k \in 1..7 /\ k + 1 \in 1..7 /\ k < k + 1 /\ k \in Int
  OBVIOUS
<1>2. Below(F[k], A) /\ Below(F[k], C) /\ Below(A, C)
  BY <1>1 DEF Layered, Below, Flows
<1>3. ASSUME NEW i \in 1..7, NEW j \in 1..7, i < j PROVE Below(G[i], G[j])
  <2>1. CASE i = k /\ j = k + 1
    BY <1>2, <2>1 DEF Below, Flows
  <2>2. CASE i = k /\ j # k + 1
    <3>1. k + 1 < j /\ j # k
      BY <1>3, <2>2
    <3>2. Below(F[k], F[j]) /\ Below(F[k + 1], F[j]) /\ G[j] = F[j]
      BY <1>1, <1>3, <2>2, <3>1 DEF Layered, Flows
    <3> QED
      BY <2>2, <3>2 DEF Below, Flows
  <2>3. CASE i = k + 1
    <3>1. j # k /\ j # k + 1
      BY <1>1, <1>3, <2>3
    <3>2. Below(F[k + 1], F[j]) /\ G[j] = F[j]
      BY <1>3, <2>3, <3>1 DEF Layered, Flows
    <3> QED
      BY <2>3, <3>2 DEF Below, Flows
  <2>4. CASE i # k /\ i # k + 1
    <3>1. G[i] = F[i] /\ Below(F[i], F[j])
      BY <1>3, <2>4 DEF Layered, Flows
    <3>2. CASE j = k
      <4>1. i < k + 1
        BY <1>1, <1>3, <3>2
      <4>2. Below(F[i], F[k + 1])
        BY <1>1, <4>1 DEF Layered
      <4> QED
        BY <3>1, <3>2, <4>2 DEF Below, Flows
    <3>3. CASE j = k + 1
      BY <3>1, <3>3 DEF Below, Flows
    <3>4. CASE j # k /\ j # k + 1
      BY <1>3, <3>1, <3>4 DEF Flows
    <3> QED
      BY <3>2, <3>3, <3>4
  <2> QED
    BY <2>1, <2>2, <2>3, <2>4
<1>4. ASSUME NEW n \in Nat, Within(F, n) PROVE Within(G, n)
  <2>1. F[k] \subseteq 1..n /\ F[k + 1] \subseteq 1..n
    BY <1>1, <1>4 DEF Within
  <2>2. G[k] \subseteq 1..n /\ G[k + 1] \subseteq 1..n
    BY <2>1 DEF Flows
  <2> QED
    BY <1>4, <2>2 DEF Within, Flows
<1> QED
  BY <1>3, <1>4 DEF Layered

LEMMA FlowKeeps ==
  ASSUME NEW F, NEW G, NEW k \in 1..6, NEW A, NEW C, Flows(F, G, k, A, C),
         F[k] \cup A \subseteq G[k]
  PROVE  All(F) \subseteq All(G)
<1>1. k \in 1..7 /\ k + 1 \in 1..7
  OBVIOUS
<1>2. ASSUME NEW i \in 1..7 PROVE F[i] \subseteq All(G)
  <2>1. G[k] \subseteq All(G) /\ G[k + 1] \subseteq All(G) /\ G[i] \subseteq All(G)
    BY <1>1 DEF All
  <2>2. F[k] \subseteq G[k] /\ F[k + 1] \subseteq G[k] \cup G[k + 1]
    BY DEF Flows
  <2>3. i # k /\ i # k + 1 => F[i] = G[i]
    BY DEF Flows
  <2> QED
    BY <2>1, <2>2, <2>3
<1> QED
  BY <1>2 DEF All

(* A new sample enters at the end.                                         *)
LEMMA FlowIn ==
  ASSUME NEW F, NEW G, NEW n \in Nat, Layered(F), Within(F, n),
         \A i \in 1..6 : G[i] = F[i], G[7] = F[7] \cup {n + 1}
  PROVE  /\ Layered(G) /\ Within(G, n + 1) /\ Below(F[7], {n + 1})
         /\ \A lost : 1..n \subseteq All(F) \cup lost => 1..(n + 1) \subseteq All(G) \cup lost
<1>1. \A i \in 1..7 : Below(F[i], {n + 1})
  BY DEF Within, Below
<1>2. \A i \in 1..7 : F[i] \subseteq G[i] /\ G[i] \subseteq F[i] \cup {n + 1} /\ (i < 7 => G[i] = F[i])
  <2>1. \A i \in 1..7 : i \in 1..6 \/ i = 7
    OBVIOUS
  <2> QED
    BY <2>1
<1>3. ASSUME NEW i \in 1..7, NEW j \in 1..7, i < j PROVE Below(G[i], G[j])
  <2>1. G[i] = F[i] /\ G[j] \subseteq F[j] \cup {n + 1}
    BY <1>2, <1>3
  <2>2. Below(F[i], F[j]) /\ Below(F[i], {n + 1})
    BY <1>1, <1>3 DEF Layered
  <2> QED
    BY <2>1, <2>2 DEF Below
<1>4. 1..(n + 1) = 1..n \cup {n + 1}
  OBVIOUS
<1>5. Within(G, n + 1)
  BY <1>2, <1>4 DEF Within
<1>6. All(F) \cup {n + 1} \subseteq All(G)
  <2>1. 7 \in 1..7 /\ n + 1 \in G[7]
    OBVIOUS
  <2> QED
    BY <1>2, <2>1 DEF All
<1> QED
  BY <1>1, <1>3, <1>4, <1>5, <1>6 DEF Layered

(* Hearing one buffer more.                                                *)
LEMMA HeardMore ==
  ASSUME NEW h \in Seq(Nat), NEW b \in Bytes
  PROVE  LET g == h \o Numbers(b) IN
         /\ g \in Seq(Nat) /\ IsPrefix(h, g) /\ Range(g) \ {0} = (Range(h) \ {0}) \cup Nos(b)
         /\ LineSpec!Ascending(h) /\ Sorted(b) /\ Below(Range(h) \ {0}, Nos(b))
              => LineSpec!Ascending(g)
<1> DEFINE t == Numbers(b)
           g == h \o t
           m == Len(h)
<1>1. /\ t \in Seq(Nat) /\ DOMAIN t = DOMAIN b /\ \A k \in DOMAIN b : t[k] = b[k].number
      /\ Range(t) \ {0} = Nos(b)
  BY NumbersHeard
<1>2. /\ m \in Nat /\ Len(t) \in Nat /\ DOMAIN h = 1..m /\ DOMAIN t = 1..Len(t)
      /\ g \in Seq(Nat) /\ Len(g) = m + Len(t) /\ DOMAIN g = 1..(m + Len(t))
      /\ \A k \in 1..(m + Len(t)) : g[k] = IF k <= m THEN h[k] ELSE t[k - m]
  BY <1>1, ConcatProperties, LenProperties
<1>3. \A k \in 1..m : k \in DOMAIN g /\ g[k] = h[k] /\ h[k] \in Nat
  BY <1>2
<1>4. \A k \in DOMAIN g : k \notin 1..m => k - m \in DOMAIN t /\ g[k] = t[k - m] /\ t[k - m] \in Nat
  BY <1>2
<1>5. \A k \in DOMAIN t : m + k \in DOMAIN g /\ g[m + k] = t[k]
  <2> SUFFICES ASSUME NEW k \in DOMAIN t PROVE m + k \in DOMAIN g /\ g[m + k] = t[k]
    OBVIOUS
  <2>1. m + k \in 1..(m + Len(t)) /\ ~(m + k <= m) /\ (m + k) - m = k
    BY <1>2
  <2> QED
    BY <1>2, <2>1
<1>6. IsPrefix(h, g)
  <2>1. SubSeq(g, 1, m) = h
    <3>1. 1 \in Int /\ m \in Int /\ (\A i \in 1..m : g[i] \in Nat) /\ m = Len(h) /\ m - 1 + 1 = m
          /\ (m < 1 => m = 0) /\ \A i \in 1..m : 1 + i - 1 = i /\ g[i] = h[i]
      BY <1>2, <1>3
    <3> HIDE DEF g, m
    <3>2. PICK s : s = SubSeq(g, 1, m)
      OBVIOUS
    <3>3. s \in Seq(Nat) /\ Len(s) = (IF 1 <= m THEN m - 1 + 1 ELSE 0)
          /\ \A i \in 1..(m - 1 + 1) : s[i] = g[1 + i - 1]
      BY <3>1, <3>2, SubSeqProperties
    <3>4. Len(s) = Len(h) /\ \A i \in 1..Len(s) : s[i] = h[i]
      BY <3>1, <3>3
    <3>5. s = h
      BY <3>3, <3>4, SeqEqual
    <3> QED
      BY <3>2, <3>5
  <2>2. SubSeq(h, 1, m) = h
    BY SubSeqFull
  <2>3. m <= Len(g)
    BY <1>2
  <2> QED
    BY <2>1, <2>2, <2>3 DEF IsPrefix
<1> HIDE DEF t, g, m
<1>7. Range(g) = Range(h) \cup Range(t)
  <2>1. \A k \in DOMAIN h : g[k] = h[k] /\ k \in DOMAIN g
    BY <1>2, <1>3
  <2>2. \A k \in DOMAIN g : (k \in DOMAIN h /\ g[k] = h[k]) \/ (k - m \in DOMAIN t /\ g[k] = t[k - m])
    BY <1>2, <1>3, <1>4
  <2> QED
    BY <1>5, <2>1, <2>2 DEF Range
<1>8. ASSUME LineSpec!Ascending(h), Sorted(b), Below(Range(h) \ {0}, Nos(b)),
             NEW j \in DOMAIN g, NEW k \in DOMAIN g, j < k, g[k] # 0
      PROVE  g[j] < g[k]
  <2>1. CASE k \in 1..m
    <3>1. j \in 1..m
      BY <1>2, <1>8, <2>1
    <3>2. h[k] # 0 /\ j \in DOMAIN h /\ k \in DOMAIN h
      BY <1>2, <1>3, <1>8, <2>1, <3>1
    <3> QED
      BY <1>3, <1>8, <2>1, <3>1, <3>2 DEF LineSpec!Ascending
  <2>2. CASE k \notin 1..m
    <3>1. k - m \in DOMAIN t /\ g[k] = t[k - m] /\ g[k] \in Nat /\ g[k] = b[k - m].number
      BY <1>1, <1>4, <2>2
    <3>2. g[k] \in Nos(b)
      BY <1>1, <1>8, <3>1 DEF Nos
    <3>3. CASE j \in 1..m
      <4>1. g[j] \in Range(h) /\ g[j] \in Nat
        BY <1>2, <1>3, <3>3 DEF Range
      <4>2. CASE g[j] = 0
        BY <1>8, <3>1, <4>2
      <4>3. CASE g[j] # 0
        BY <1>8, <3>2, <4>1, <4>3 DEF Below
      <4> QED
        BY <4>2, <4>3
    <3>4. CASE j \notin 1..m
      <4>1. j - m \in DOMAIN t /\ g[j] = b[j - m].number
        BY <1>1, <1>4, <3>4
      <4>2. j - m < k - m
        BY <1>2, <1>8
      <4> QED
        BY <1>1, <1>8, <3>1, <4>1, <4>2 DEF Sorted
    <3> QED
      BY <3>3, <3>4
  <2> QED
    BY <2>1, <2>2
<1>9. LineSpec!Ascending(h) /\ Sorted(b) /\ Below(Range(h) \ {0}, Nos(b)) => LineSpec!Ascending(g)
  BY <1>8 DEF LineSpec!Ascending
<1>10. Range(g) \ {0} = (Range(h) \ {0}) \cup Nos(b)
  BY <1>1, <1>7
<1> QED
  BY <1>2, <1>6, <1>9, <1>10 DEF g, t

-----------------------------------------------------------------------------
(* The inductive invariant of one direction.                               *)
InOrder(u) ==
  /\ Layered(Pipe(u)) /\ Within(Pipe(u), said[u]) /\ LineSpec!Ascending(heard[u])
  /\ QSorted(playing[Peer(u)]) /\ QSorted(in[Peer(u)]) /\ Sorted(data[Peer(u)])
  /\ Sorted(wire[u]) /\ QSorted(out[u]) /\ Sorted(buff[u])

Complete(u) == 1..said[u] \subseteq All(Pipe(u)) \cup bunched[Peer(u)]

LEMMA NextPlaces ==
  ASSUME NEW u
  PROVE  /\ Pipe(u)'[1] = Range(heard'[u]) \ {0} /\ Pipe(u)'[2] = QNos(playing'[Peer(u)])
         /\ Pipe(u)'[3] = QNos(in'[Peer(u)]) /\ Pipe(u)'[4] = Nos(data'[Peer(u)])
         /\ Pipe(u)'[5] = Nos(wire'[u]) /\ Pipe(u)'[6] = QNos(out'[u]) /\ Pipe(u)'[7] = Nos(buff'[u])
BY DEF Pipe

LEMMA PlaceTypes ==
  ASSUME TypeOK, NEW u \in User
  PROVE  /\ said[u] \in Nat /\ heard[u] \in Seq(Nat)
         /\ playing[u] \in Buffers /\ Len(playing[u]) <= 1
         /\ in[u] \in Buffers /\ out[u] \in Buffers
         /\ data[u] \in Bytes /\ wire[u] \in Bytes /\ buff[u] \in Bytes
BY Types DEF Strings, Queues, Playing, Speech

(* A line that is not mangled ends in its only newline.                    *)
LEMMA WholeLine ==
  ASSUME NEW b \in Bytes, ~Mangled(b), Newlines(b) # {}
  PROVE  /\ IsNewline(Head(b)) => Nos(b) = {}
         /\ Nos(CString(Front(b))) = Nos(b)
<1>1. \A k \in DOMAIN b : IsNewline(b[k]) => b[k] = Newline /\ ~(k < Len(b))
  BY DEF Mangled, IsNewline, Ten, Ordinary
<1>2. \A k \in DOMAIN b : k < Len(b) => b[k].sound # Zero
  BY <1>1 DEF Mangled, Ordinary, Zero
<1>3. b # <<>> /\ Len(b) \in Nat \ {0} /\ DOMAIN b = 1..Len(b)
  BY NoBytes, Indices, FrontCut
<1>4. b[Len(b)] = Newline
  <2>1. PICK k \in DOMAIN b : IsNewline(b[k])
    BY DEF Newlines
  <2>2. k = Len(b)
    BY <1>1, <1>3, <2>1
  <2> QED
    BY <1>1, <2>1, <2>2
<1>5. /\ Front(b) \in Bytes /\ Len(Front(b)) = Len(b) - 1 /\ b = Front(b) \o <<Newline>>
      /\ \A k \in DOMAIN Front(b) : k \in DOMAIN b /\ k < Len(b) /\ Front(b)[k] = b[k]
  BY <1>3, <1>4, FrontCut
<1>6. CString(Front(b)) = Front(b)
  BY <1>2, <1>5, CStringCut
<1>7. Nos(b) = Nos(Front(b))
  <2>1. <<Newline>> \in Bytes /\ Nos(<<Newline>>) = {}
    BY NewlineByte, OneByte
  <2>2. PICK f, l : f = Front(b) /\ l = <<Newline>>
    OBVIOUS
  <2>3. f \in Bytes /\ l \in Bytes /\ b = f \o l /\ Nos(l) = {}
    BY <1>5, <2>1, <2>2
  <2>4. Nos(f \o l) = Nos(f) \cup Nos(l)
    BY <2>3, JoinedNos
  <2> QED
    BY <2>2, <2>3, <2>4
<1>8. ASSUME IsNewline(Head(b)) PROVE Nos(b) = {}
  <2>1. Head(b) = b[1] /\ 1 \in DOMAIN b
    BY <1>3
  <2>2. Len(Front(b)) = 0
    BY <1>1, <1>3, <1>5, <1>8, <2>1
  <2>3. DOMAIN Front(b) = {}
    BY <1>5, <2>2, Indices
  <2> QED
    BY <1>7, <2>3 DEF Nos
<1> QED
  BY <1>6, <1>7, <1>8

LEMMA PipeInit == ASSUME Init, NEW u \in User PROVE InOrder(u) /\ Complete(u)
<1>1. /\ heard[u] = <<>> /\ said[u] = 0 /\ wire[u] = <<>> /\ out[u] = <<>> /\ buff[u] = <<>>
      /\ playing[Peer(u)] = <<>> /\ in[Peer(u)] = <<>> /\ data[Peer(u)] = <<>>
  BY Users DEF Init
<1>2. \A i \in 1..7 : Pipe(u)[i] = {}
  <2>1. Range(<<>>) = {}
    BY EmptySeq DEF Range
  <2>2. \A i \in 1..7 : i = 1 \/ i = 2 \/ i = 3 \/ i = 4 \/ i = 5 \/ i = 6 \/ i = 7
    OBVIOUS
  <2> QED
    BY <1>1, <2>1, <2>2, NoBytes, NoBuffers, Places
<1>3. Layered(Pipe(u)) /\ Within(Pipe(u), said[u])
  BY <1>2 DEF Layered, Within, Below
<1>4. LineSpec!Ascending(heard[u]) /\ 1..said[u] = {}
  <2>1. DOMAIN heard[u] = {}
    BY <1>1, EmptySeq
  <2> QED
    BY <1>1, <2>1 DEF LineSpec!Ascending
<1> QED
  BY <1>1, <1>3, <1>4, NoBytes, NoBuffers DEF InOrder, Complete

(* A step of the other direction.                                          *)
LEMMA PipeStill ==
  ASSUME NEW u \in User, InOrder(u), Complete(u),
         heard'[u] = heard[u], said'[u] = said[u], wire'[u] = wire[u], out'[u] = out[u],
         buff'[u] = buff[u], playing'[Peer(u)] = playing[Peer(u)], in'[Peer(u)] = in[Peer(u)],
         data'[Peer(u)] = data[Peer(u)], bunched'[Peer(u)] = bunched[Peer(u)]
  PROVE  InOrder(u)' /\ Complete(u)'
<1>1. Pipe(u)' = Pipe(u)
  BY DEF Pipe
<1>2. InOrder(u)'
  BY <1>1 DEF InOrder
<1>3. Complete(u)'
  BY <1>1 DEF Complete
<1> QED
  BY <1>2, <1>3

(* u speaks.                                                               *)
LEMMA PipeSpeak ==
  ASSUME TypeOK, NEW u \in User, InOrder(u), Complete(u), Speak(u)
  PROVE  InOrder(u)' /\ Complete(u)'
<1> USE DEF setup, recorder, queues, link, player, speech
<1>1. /\ UNCHANGED <<heard, wire, out, playing, in, data, bunched>>
      /\ said'[u] = said[u] + 1 /\ said[u] \in Nat /\ said[u] < MaxSaid[u]
  BY Types DEF Speak, Speech
<1>2. PICK s \in Sample : s.number = said[u] + 1 /\ buff'[u] = buff[u] \o <<s>>
  <2>1. PICK sound \in Sounds[said'[u]] :
          buff' = [buff EXCEPT ![u] = Append(@, [number |-> said'[u], sound |-> sound])]
    BY DEF Speak
  <2>2. Sounds[said'[u]] \subseteq Sound
    <3>1. said'[u] \in 1..Len(Sounds) /\ Sounds \in Seq(SUBSET Sound)
      BY <1>1, VoiceAssumption
    <3> QED
      BY <3>1
  <2>3. PICK s : s = [number |-> said'[u], sound |-> sound]
    OBVIOUS
  <2>4. s \in Sample /\ s.number = said[u] + 1
    BY <1>1, <2>1, <2>2, <2>3 DEF Sample
  <2>5. buff'[u] = Append(buff[u], s)
    BY <2>1, <2>3, Types DEF Strings
  <2>6. Append(buff[u], s) = buff[u] \o <<s>>
    BY <2>4, OneByte, PlaceTypes
  <2> QED
    BY <2>4, <2>5, <2>6
<1>3. <<s>> \in Bytes /\ Nos(<<s>>) = {said[u] + 1} /\ Sorted(<<s>>) /\ buff[u] \in Bytes
  BY <1>1, <1>2, OneByte, PlaceTypes
<1>4. Nos(buff'[u]) = Nos(buff[u]) \cup {said[u] + 1}
      /\ (Sorted(buff[u]) /\ Below(Nos(buff[u]), {said[u] + 1}) => Sorted(buff'[u]))
  <2>1. PICK b, t : b = buff[u] /\ t = <<s>>
    OBVIOUS
  <2>2. /\ Nos(b \o t) = Nos(b) \cup Nos(t)
        /\ Sorted(b \o t) <=> Sorted(b) /\ Sorted(t) /\ Below(Nos(b), Nos(t))
    BY <1>3, <2>1, JoinedNos
  <2> QED
    BY <1>2, <1>3, <2>1, <2>2
<1>5. PICK F, G : F = Pipe(u) /\ G = Pipe(u)'
  OBVIOUS
<1>6. G[7] = F[7] \cup {said[u] + 1} /\ F[7] = Nos(buff[u]) /\ \A i \in 1..6 : G[i] = F[i]
  <2>1. G[1] = F[1] /\ G[2] = F[2] /\ G[3] = F[3]
    BY <1>1, <1>5 DEF Pipe
  <2>2. G[4] = F[4] /\ G[5] = F[5] /\ G[6] = F[6]
    BY <1>1, <1>5 DEF Pipe
  <2>3. \A i \in 1..6 : i = 1 \/ i = 2 \/ i = 3 \/ i = 4 \/ i = 5 \/ i = 6
    OBVIOUS
  <2> QED
    BY <1>4, <1>5, <2>1, <2>2, <2>3, Places, NextPlaces
<1>7. Layered(F) /\ Within(F, said[u])
  BY <1>5 DEF InOrder
<1>8. /\ Layered(G) /\ Within(G, said[u] + 1) /\ Below(F[7], {said[u] + 1})
      /\ 1..said[u] \subseteq All(F) \cup bunched[Peer(u)]
         => 1..(said[u] + 1) \subseteq All(G) \cup bunched[Peer(u)]
  BY <1>1, <1>6, <1>7, FlowIn
<1>9. InOrder(u)'
  BY <1>1, <1>4, <1>5, <1>6, <1>8 DEF InOrder
<1>10. Complete(u)'
  BY <1>1, <1>5, <1>8 DEF Complete
<1> QED
  BY <1>9, <1>10

LEMMA Seven == \A i \in 1..7 : i = 1 \/ i = 2 \/ i = 3 \/ i = 4 \/ i = 5 \/ i = 6 \/ i = 7
OBVIOUS

LEMMA Untouched ==
  ASSUME NEW u
  PROVE  /\ heard'[u] = heard[u] => Pipe(u)'[1] = Pipe(u)[1]
         /\ playing'[Peer(u)] = playing[Peer(u)] => Pipe(u)'[2] = Pipe(u)[2]
         /\ in'[Peer(u)] = in[Peer(u)] => Pipe(u)'[3] = Pipe(u)[3]
         /\ data'[Peer(u)] = data[Peer(u)] => Pipe(u)'[4] = Pipe(u)[4]
         /\ wire'[u] = wire[u] => Pipe(u)'[5] = Pipe(u)[5]
         /\ out'[u] = out[u] => Pipe(u)'[6] = Pipe(u)[6]
         /\ buff'[u] = buff[u] => Pipe(u)'[7] = Pipe(u)[7]
<1>1. heard'[u] = heard[u] => Pipe(u)'[1] = Pipe(u)[1]
  <2>1. Pipe(u)'[1] = Range(heard'[u]) \ {0} /\ Pipe(u)[1] = Range(heard[u]) \ {0}
    BY Places, NextPlaces
  <2> QED
    BY <2>1
<1>2. playing'[Peer(u)] = playing[Peer(u)] => Pipe(u)'[2] = Pipe(u)[2]
  BY Places, NextPlaces
<1>3. in'[Peer(u)] = in[Peer(u)] => Pipe(u)'[3] = Pipe(u)[3]
  BY Places, NextPlaces
<1>4. data'[Peer(u)] = data[Peer(u)] => Pipe(u)'[4] = Pipe(u)[4]
  BY Places, NextPlaces
<1>5. wire'[u] = wire[u] => Pipe(u)'[5] = Pipe(u)[5]
  BY Places, NextPlaces
<1>6. out'[u] = out[u] => Pipe(u)'[6] = Pipe(u)[6]
  BY Places, NextPlaces
<1>7. buff'[u] = buff[u] => Pipe(u)'[7] = Pipe(u)[7]
  BY Places, NextPlaces
<1> QED
  BY <1>1, <1>2, <1>3, <1>4, <1>5, <1>6, <1>7

(* What has been recorded is queued.                                       *)
LEMMA PipeRecorded ==
  ASSUME TypeOK, NEW u \in User, InOrder(u), Complete(u), StopRecording(u)
  PROVE  InOrder(u)' /\ Complete(u)'
<1> USE DEF setup, recorder, queues, link, player, speech
<1>1. /\ UNCHANGED <<heard, said, wire, playing, in, data, bunched>>
      /\ out[u] = <<>> /\ out'[u] = Append(<<>>, buff[u]) /\ buff'[u] = <<>>
  BY Types DEF StopRecording, Strings, Queues
<1>2. buff[u] \in Bytes /\ said[u] \in Nat
  BY PlaceTypes
<1>3. QNos(out'[u]) = Nos(buff[u]) /\ (Sorted(buff[u]) => QSorted(out'[u]))
  <2>1. \A b \in Bytes : QNos(Append(<<>>, b)) = {} \cup Nos(b) /\ (Sorted(b) => QSorted(Append(<<>>, b)))
    BY NoBuffers, Queued DEF Below
  <2> QED
    BY <1>1, <1>2, <2>1
<1>4. PICK F, G : F = Pipe(u) /\ G = Pipe(u)'
  OBVIOUS
<1>5. Layered(F) /\ Within(F, said[u])
  BY <1>4 DEF InOrder
<1>6. /\ F[6] = {} /\ F[7] = Nos(buff[u]) /\ G[6] = F[7] /\ G[7] = {}
      /\ \A i \in 1..7 : i # 6 /\ i # 6 + 1 => G[i] = F[i]
  BY <1>1, <1>3, <1>4, Places, NextPlaces, Untouched, Seven, NoBytes, NoBuffers
<1>7. Flows(F, G, 6, F[7], {})
  BY <1>6 DEF Flows, Below
<1>8. Layered(G) /\ Within(G, said[u]) /\ All(F) \subseteq All(G)
  BY <1>2, <1>5, <1>6, <1>7, FlowOrder, FlowKeeps
<1>9. InOrder(u)'
  BY <1>1, <1>3, <1>4, <1>8, NoBytes DEF InOrder
<1>10. Complete(u)'
  BY <1>1, <1>4, <1>8 DEF Complete
<1> QED
  BY <1>9, <1>10

(* A buffer, or nothing, is sent, and a newline.                           *)
LEMMA PipeSent ==
  ASSUME TypeOK, NEW u \in User, InOrder(u), Complete(u), StartSending(u)
  PROVE  InOrder(u)' /\ Complete(u)'
<1> USE DEF setup, recorder, queues, link, player, speech
<1>1. UNCHANGED <<heard, said, buff, playing, in, data, bunched>>
  BY DEF StartSending
<1>2. wire[u] \in Bytes /\ out[u] \in Buffers /\ said[u] \in Nat
  BY PlaceTypes
<1>3. PICK F, G : F = Pipe(u) /\ G = Pipe(u)'
  OBVIOUS
<1>4. /\ Layered(F) /\ Within(F, said[u]) /\ Sorted(wire[u]) /\ QSorted(out[u])
      /\ F[5] = Nos(wire[u]) /\ F[6] = QNos(out[u]) /\ Below(F[5], F[6])
  <2>1. 5 \in 1..7 /\ 6 \in 1..7 /\ 5 < 6
    OBVIOUS
  <2> QED
    BY <1>3, <2>1, Places DEF InOrder, Layered
<1>5. \E A, C : /\ Flows(F, G, 5, A, C) /\ F[5] \cup A \subseteq G[5]
                /\ Sorted(wire'[u]) /\ QSorted(out'[u])
  <2>1. PICK nl : nl = <<Newline>>
    OBVIOUS
  <2>2. nl \in Bytes /\ Nos(nl) = {} /\ Sorted(nl) /\ \A b \in Bytes : Append(b, Newline) = b \o nl
    BY <2>1, NewlineByte, OneByte
  <2>3. \A b \in Bytes : b \o nl \in Bytes /\ Nos(b \o nl) = Nos(b) /\ (Sorted(b) => Sorted(b \o nl))
    <3>1. \A b \in Bytes : Nos(b \o nl) = Nos(b) \cup Nos(nl)
                           /\ (Sorted(b) /\ Below(Nos(b), Nos(nl)) => Sorted(b \o nl))
      BY <2>2, JoinedNos
    <3> QED
      BY <2>2, <3>1, Joined DEF Below
  <2>4. \A i \in 1..7 : i # 5 /\ i # 5 + 1 => G[i] = F[i]
    BY <1>1, <1>3, Untouched, Seven
  <2>5. G[5] = Nos(wire'[u]) /\ G[6] = QNos(out'[u])
    BY <1>3, NextPlaces
  <2>6. CASE out[u] = <<>>
    <3>1. wire'[u] = wire[u] \o nl /\ out'[u] = out[u]
      BY <1>2, <2>2, <2>6, Types DEF StartSending, Strings
    <3>2. G[5] = F[5] /\ G[6] = F[6] /\ Sorted(wire'[u]) /\ QSorted(out'[u])
      BY <1>2, <1>4, <2>3, <2>5, <3>1
    <3>3. Flows(F, G, 5, {}, F[6])
      BY <2>4, <3>2 DEF Flows, Below
    <3> QED
      BY <3>2, <3>3
  <2>7. CASE out[u] # <<>>
    <3>1. PICK h, t : h = Head(out[u]) /\ t = Tail(out[u])
      OBVIOUS
    <3>2. /\ h \in Bytes /\ t \in Buffers /\ F[6] = Nos(h) \cup QNos(t)
          /\ Sorted(h) /\ QSorted(t) /\ Below(Nos(h), QNos(t))
      BY <1>2, <1>4, <2>7, <3>1, Taken
    <3>3. PICK l : l = h \o nl
      OBVIOUS
    <3>4. l \in Bytes /\ Nos(l) = Nos(h) /\ Sorted(l)
      BY <2>3, <3>2, <3>3
    <3>5. wire'[u] = wire[u] \o l /\ out'[u] = t
      BY <1>2, <2>2, <2>7, <3>1, <3>2, <3>3, Types DEF StartSending, Strings, Queues
    <3>6. Below(F[5], Nos(l))
      BY <1>4, <3>2, <3>4 DEF Below
    <3>7. Nos(wire[u] \o l) = Nos(wire[u]) \cup Nos(l) /\ Sorted(wire[u] \o l)
      <4>1. PICK w : w = wire[u]
        OBVIOUS
      <4>2. w \in Bytes /\ Sorted(w) /\ Below(Nos(w), Nos(l))
        BY <1>2, <1>4, <3>6, <4>1
      <4> QED
        BY <3>4, <4>1, <4>2, JoinedNos
    <3>8. Flows(F, G, 5, Nos(h), QNos(t)) /\ F[5] \cup Nos(h) \subseteq G[5]
      BY <1>4, <2>4, <2>5, <3>2, <3>4, <3>5, <3>7 DEF Flows
    <3> QED
      BY <3>2, <3>5, <3>7, <3>8
  <2> QED
    BY <2>6, <2>7
<1>6. Layered(G) /\ Within(G, said[u]) /\ All(F) \subseteq All(G)
  <2>1. PICK A : \E C : Flows(F, G, 5, A, C) /\ F[5] \cup A \subseteq G[5]
    BY <1>5
  <2>2. PICK C : Flows(F, G, 5, A, C) /\ F[5] \cup A \subseteq G[5]
    BY <2>1
  <2> QED
    BY <1>2, <1>4, <2>2, FlowOrder, FlowKeeps
<1>7. InOrder(u)'
  BY <1>1, <1>3, <1>5, <1>6 DEF InOrder
<1>8. Complete(u)'
  BY <1>1, <1>3, <1>6 DEF Complete
<1> QED
  BY <1>7, <1>8

(* The peer reads.                                                         *)
LEMMA PipeRead ==
  ASSUME TypeOK, NEW u \in User, InOrder(u), Complete(u), ReadSome(Peer(u))
  PROVE  InOrder(u)' /\ Complete(u)'
<1> USE DEF setup, recorder, queues, link, player, speech
<1>1. /\ Peer(u) \in User /\ Peer(Peer(u)) = u /\ Peer(u) # u
      /\ UNCHANGED <<heard, said, buff, out, playing, in, bunched>>
  BY Users DEF ReadSome
<1>2. CASE UNCHANGED <<wire, data>>
  BY <1>1, <1>2, PipeStill
<1>3. ASSUME NEW n \in DOMAIN wire[u],
             data' = [data EXCEPT ![Peer(u)] = @ \o SubSeq(wire[u], 1, n)],
             wire' = [wire EXCEPT ![u] = SubSeq(@, n + 1, Len(@))]
      PROVE  InOrder(u)' /\ Complete(u)'
  <2>1. PICK w, x, y, d : /\ w = wire[u] /\ d = data[Peer(u)]
                          /\ x = SubSeq(w, 1, n) /\ y = SubSeq(w, n + 1, Len(w))
    OBVIOUS
  <2>2. w \in Bytes /\ d \in Bytes /\ n \in 0..Len(w) /\ said[u] \in Nat
    BY <1>1, <1>3, <2>1, Indices, PlaceTypes
  <2>3. x \in Bytes /\ y \in Bytes /\ w = x \o y
    BY <2>1, <2>2, Split
  <2>4. data'[Peer(u)] = d \o x /\ wire'[u] = y
    BY <1>1, <1>3, <2>1, Types DEF Strings
  <2>5. PICK F, G : F = Pipe(u) /\ G = Pipe(u)'
    OBVIOUS
  <2>6. /\ Layered(F) /\ Within(F, said[u]) /\ Sorted(w) /\ Sorted(d)
        /\ F[4] = Nos(d) /\ F[5] = Nos(w) /\ Below(F[4], F[5])
    <3>1. 4 \in 1..7 /\ 5 \in 1..7 /\ 4 < 5
      OBVIOUS
    <3> QED
      BY <2>1, <2>5, <3>1, Places DEF InOrder, Layered
  <2>7. Nos(w) = Nos(x) \cup Nos(y) /\ Sorted(x) /\ Sorted(y) /\ Below(Nos(x), Nos(y))
    BY <2>3, <2>6, JoinedNos
  <2>8. Nos(d \o x) = Nos(d) \cup Nos(x) /\ Sorted(d \o x)
    <3>1. Below(Nos(d), Nos(x))
      BY <2>6, <2>7 DEF Below
    <3> QED
      BY <2>2, <2>3, <2>6, <2>7, <3>1, JoinedNos
  <2>9. /\ G[4] = F[4] \cup Nos(x) /\ G[5] = Nos(y)
        /\ \A i \in 1..7 : i # 4 /\ i # 4 + 1 => G[i] = F[i]
    <3>1. G[4] = Nos(data'[Peer(u)]) /\ G[5] = Nos(wire'[u])
      BY <2>5, NextPlaces
    <3>2. \A i \in 1..7 : i # 4 /\ i # 4 + 1 => G[i] = F[i]
      BY <1>1, <2>5, Untouched, Seven
    <3> QED
      BY <2>4, <2>6, <2>8, <3>1, <3>2
  <2>10. Flows(F, G, 4, Nos(x), Nos(y)) /\ F[4] \cup Nos(x) \subseteq G[4]
    BY <2>6, <2>7, <2>9 DEF Flows
  <2>11. Layered(G) /\ Within(G, said[u]) /\ All(F) \subseteq All(G)
    BY <2>2, <2>6, <2>10, FlowOrder, FlowKeeps
  <2>12. InOrder(u)'
    BY <1>1, <2>4, <2>5, <2>7, <2>8, <2>11 DEF InOrder
  <2>13. Complete(u)'
    BY <1>1, <2>5, <2>11 DEF Complete
  <2> QED
    BY <2>12, <2>13
<1> QED
  BY <1>1, <1>2, <1>3 DEF ReadSome

(* What the peer has read goes to its queue, or is dropped.                *)
LEMMA PipePushed ==
  ASSUME TypeOK, NEW u \in User, InOrder(u), Complete(u), PushData(Peer(u))
  PROVE  InOrder(u)' /\ Complete(u)'
<1> USE DEF setup, recorder, queues, link, player, speech
<1>1. /\ Peer(u) \in User /\ Peer(Peer(u)) = u
      /\ UNCHANGED <<heard, said, wire, buff, out, playing>>
      /\ data'[Peer(u)] = <<>> /\ Newlines(data[Peer(u)]) # {}
      /\ bunched'[Peer(u)] = bunched[Peer(u)] \cup Bunched(data[Peer(u)])
  BY Users, Types DEF PushData, Done, Strings, Controls
<1>2. PICK d, q : d = data[Peer(u)] /\ q = in[Peer(u)]
  OBVIOUS
<1>3. d \in Bytes /\ d # <<>> /\ q \in Buffers /\ said[u] \in Nat
  BY <1>1, <1>2, PlaceTypes, NoBytes
<1>4. PICK c : c = CString(Front(d))
  OBVIOUS
<1>5. c \in Bytes /\ Nos(c) \subseteq Nos(d) /\ (Sorted(d) => Sorted(c))
  BY <1>3, <1>4, Kept
<1>6. in'[Peer(u)] = IF IsNewline(Head(d)) THEN q ELSE Append(q, c)
  BY <1>1, <1>2, <1>4, Types DEF PushData, Queues
<1>7. PICK F, G : F = Pipe(u) /\ G = Pipe(u)'
  OBVIOUS
<1>8. /\ Layered(F) /\ Within(F, said[u]) /\ Sorted(d) /\ QSorted(q)
      /\ F[3] = QNos(q) /\ F[4] = Nos(d) /\ Below(F[3], F[4])
  <2>1. 3 \in 1..7 /\ 4 \in 1..7 /\ 3 < 4
    OBVIOUS
  <2> QED
    BY <1>2, <1>7, <2>1, Places DEF InOrder, Layered
<1>9. /\ G[3] = QNos(in'[Peer(u)]) /\ G[4] = {}
      /\ \A i \in 1..7 : i # 3 /\ i # 3 + 1 => G[i] = F[i]
  <2>1. G[3] = QNos(in'[Peer(u)]) /\ G[4] = {}
    BY <1>1, <1>7, NextPlaces, NoBytes
  <2>2. \A i \in 1..7 : i # 3 /\ i # 3 + 1 => G[i] = F[i]
    BY <1>1, <1>7, Untouched, Seven
  <2> QED
    BY <2>1, <2>2
<1>10. Below(QNos(q), Nos(c))
  BY <1>5, <1>8 DEF Below
<1>11. /\ QSorted(in'[Peer(u)]) /\ QNos(q) \subseteq G[3] /\ G[3] \subseteq QNos(q) \cup Nos(d)
       /\ ~IsNewline(Head(d)) => G[3] = QNos(q) \cup Nos(c)
  <2>1. CASE IsNewline(Head(d))
    BY <1>6, <1>8, <1>9, <2>1
  <2>2. CASE ~IsNewline(Head(d))
    <3>1. QNos(Append(q, c)) = QNos(q) \cup Nos(c) /\ QSorted(Append(q, c))
      BY <1>3, <1>5, <1>8, <1>10, Queued
    <3> QED
      BY <1>5, <1>6, <1>9, <2>2, <3>1
  <2> QED
    BY <2>1, <2>2
<1>12. Flows(F, G, 3, F[4], {})
  BY <1>8, <1>9, <1>11 DEF Flows, Below
<1>13. Layered(G) /\ Within(G, said[u])
  BY <1>3, <1>8, <1>12, FlowOrder
<1>14. InOrder(u)'
  BY <1>1, <1>7, <1>11, <1>13, NoBytes DEF InOrder
<1>15. All(F) \subseteq All(G) \cup bunched'[Peer(u)]
  <2>1. CASE ~Mangled(d)
    <3>1. (IsNewline(Head(d)) => Nos(d) = {}) /\ Nos(c) = Nos(d)
      BY <1>1, <1>2, <1>3, <1>4, <2>1, WholeLine
    <3>2. F[3] \cup F[4] \subseteq G[3]
      BY <1>8, <1>11, <3>1
    <3> QED
      BY <1>12, <3>2, FlowKeeps
  <2>2. CASE Mangled(d)
    <3>1. F[4] \subseteq bunched'[Peer(u)]
      BY <1>1, <1>2, <1>3, <1>8, <2>2, BunchedNos
    <3>2. F[3] \subseteq G[3]
      BY <1>8, <1>11
    <3>3. \A i \in 1..7 : F[i] \subseteq G[i] \cup bunched'[Peer(u)]
      <4> SUFFICES ASSUME NEW i \in 1..7 PROVE F[i] \subseteq G[i] \cup bunched'[Peer(u)]
        OBVIOUS
      <4>1. i = 3 \/ i = 4 \/ (i # 3 /\ i # 3 + 1)
        OBVIOUS
      <4>2. CASE i # 3 /\ i # 3 + 1
        BY <1>9, <4>2
      <4> QED
        BY <3>1, <3>2, <4>1, <4>2
    <3> QED
      BY <3>3 DEF All
  <2> QED
    BY <2>1, <2>2
<1>16. Complete(u)'
  <2>1. 1..said[u] \subseteq All(F) \cup bunched[Peer(u)]
    BY <1>7 DEF Complete
  <2>2. bunched[Peer(u)] \subseteq bunched'[Peer(u)]
    BY <1>1
  <2>3. 1..said[u] \subseteq All(G) \cup bunched'[Peer(u)]
    BY <1>15, <2>1, <2>2
  <2> QED
    BY <1>1, <1>7, <2>3 DEF Complete
<1> QED
  BY <1>14, <1>16

(* The peer plays the buffer at the head of its queue.                     *)
LEMMA PipeRun ==
  ASSUME TypeOK, NEW u \in User, InOrder(u), Complete(u), Run(Peer(u))
  PROVE  InOrder(u)' /\ Complete(u)'
<1> USE DEF setup, recorder, queues, link, player, speech
<1>1. /\ Peer(u) \in User /\ Peer(Peer(u)) = u
      /\ UNCHANGED <<heard, said, wire, buff, out, data, bunched>>
      /\ in[Peer(u)] # <<>> /\ playing[Peer(u)] = <<>>
  BY Users DEF Run
<1>2. PICK q, h, t : q = in[Peer(u)] /\ h = Head(q) /\ t = Tail(q)
  OBVIOUS
<1>3. q \in Buffers /\ q # <<>> /\ said[u] \in Nat
  BY <1>1, <1>2, PlaceTypes
<1>4. playing'[Peer(u)] = <<h>> /\ in'[Peer(u)] = t
  BY <1>1, <1>2, Types DEF Run, Playing, Queues
<1>5. PICK F, G : F = Pipe(u) /\ G = Pipe(u)'
  OBVIOUS
<1>6. Layered(F) /\ Within(F, said[u]) /\ QSorted(q) /\ F[2] = {} /\ F[3] = QNos(q)
  BY <1>1, <1>2, <1>5, NoBuffers, Places DEF InOrder
<1>7. /\ h \in Bytes /\ t \in Buffers /\ QNos(q) = Nos(h) \cup QNos(t)
      /\ Sorted(h) /\ QSorted(t) /\ Below(Nos(h), QNos(t))
  BY <1>2, <1>3, <1>6, Taken
<1>8. QNos(<<h>>) = Nos(h) /\ QSorted(<<h>>)
  BY <1>7, OneBuffer
<1>9. /\ G[2] = Nos(h) /\ G[3] = QNos(t)
      /\ \A i \in 1..7 : i # 2 /\ i # 2 + 1 => G[i] = F[i]
  <2>1. G[2] = Nos(h) /\ G[3] = QNos(t)
    BY <1>4, <1>5, <1>8, NextPlaces
  <2>2. \A i \in 1..7 : i # 2 /\ i # 2 + 1 => G[i] = F[i]
    BY <1>1, <1>5, Untouched, Seven
  <2> QED
    BY <2>1, <2>2
<1>10. Flows(F, G, 2, Nos(h), QNos(t)) /\ F[2] \cup Nos(h) \subseteq G[2]
  BY <1>6, <1>7, <1>9 DEF Flows
<1>11. Layered(G) /\ Within(G, said[u]) /\ All(F) \subseteq All(G)
  BY <1>3, <1>6, <1>10, FlowOrder, FlowKeeps
<1>12. InOrder(u)'
  BY <1>1, <1>4, <1>5, <1>7, <1>8, <1>11 DEF InOrder
<1>13. Complete(u)'
  BY <1>1, <1>5, <1>11 DEF Complete
<1> QED
  BY <1>12, <1>13

(* The peer has heard a buffer and goes to the next, if there is one.      *)
LEMMA PipeIdle ==
  ASSUME TypeOK, NEW u \in User, InOrder(u), Complete(u), Idle(Peer(u))
  PROVE  /\ InOrder(u)' /\ Complete(u)'
         /\ heard' = [heard EXCEPT ![u] = heard'[u]] /\ IsPrefix(heard[u], heard'[u])
<1> USE DEF setup, recorder, queues, link, player, speech
<1>1. /\ Peer(u) \in User /\ Peer(Peer(u)) = u
      /\ UNCHANGED <<said, wire, buff, out, data, bunched>> /\ playing[Peer(u)] # <<>>
      /\ heard' = [heard EXCEPT ![u] = @ \o Numbers(Head(playing[Peer(u)]))]
  BY Users DEF Idle, Finished
<1>2. PICK p, b, q, g : /\ p = playing[Peer(u)] /\ b = Head(p) /\ q = in[Peer(u)] /\ g = heard[u]
  OBVIOUS
<1>3. /\ p \in Buffers /\ p # <<>> /\ Len(p) <= 1 /\ q \in Buffers /\ g \in Seq(Nat) /\ said[u] \in Nat
  BY <1>1, <1>2, PlaceTypes
<1>4. heard'[u] = g \o Numbers(b) /\ heard' = [heard EXCEPT ![u] = heard'[u]]
  BY <1>1, <1>2, Types DEF Speech
<1>5. PICK F, G : F = Pipe(u) /\ G = Pipe(u)'
  OBVIOUS
<1>6. /\ Layered(F) /\ Within(F, said[u]) /\ QSorted(p) /\ QSorted(q) /\ LineSpec!Ascending(g)
      /\ F[1] = Range(g) \ {0} /\ F[2] = QNos(p) /\ F[3] = QNos(q) /\ Below(F[1], F[2])
  <2>1. 1 \in 1..7 /\ 2 \in 1..7 /\ 1 < 2
    OBVIOUS
  <2> QED
    BY <1>2, <1>5, <2>1, Places DEF InOrder, Layered
<1>7. b \in Bytes /\ Sorted(b) /\ QNos(p) = Nos(b)
  <2>1. /\ b \in Bytes /\ Tail(p) \in Buffers /\ Len(Tail(p)) = Len(p) - 1
        /\ Sorted(b) /\ QNos(p) = Nos(b) \cup QNos(Tail(p))
    BY <1>2, <1>3, <1>6, Taken
  <2>2. Len(p) \in Nat /\ Len(Tail(p)) \in Nat
    BY <1>3, <2>1, LenProperties DEF Buffers
  <2>3. Len(Tail(p)) = 0
    BY <1>3, <2>1, <2>2
  <2>4. Tail(p) = <<>>
    BY <2>1, <2>3, EmptySeq DEF Buffers
  <2> QED
    BY <2>1, <2>4, NoBuffers
<1>8. /\ IsPrefix(g, g \o Numbers(b)) /\ Range(g \o Numbers(b)) \ {0} = F[1] \cup F[2]
      /\ LineSpec!Ascending(g \o Numbers(b))
  <2>1. Below(Range(g) \ {0}, Nos(b))
    BY <1>6, <1>7
  <2>2. /\ IsPrefix(g, g \o Numbers(b))
        /\ Range(g \o Numbers(b)) \ {0} = (Range(g) \ {0}) \cup Nos(b)
        /\ LineSpec!Ascending(g \o Numbers(b))
    BY <1>3, <1>6, <1>7, <2>1, HeardMore
  <2> QED
    BY <1>6, <1>7, <2>2
<1>9. PICK H : H = [i \in 1..7 |-> IF i = 1 THEN F[1] \cup F[2] ELSE IF i = 2 THEN {} ELSE F[i]]
  OBVIOUS
<1>10. /\ H[1] = F[1] \cup F[2] /\ H[2] = {} /\ H[3] = F[3]
       /\ \A i \in 1..7 : i # 1 /\ i # 2 => H[i] = F[i]
  BY <1>9
<1>11. Flows(F, H, 1, F[2], {}) /\ F[1] \cup F[2] \subseteq H[1]
  <2>1. 1 + 1 = 2
    OBVIOUS
  <2> QED
    BY <1>10, <2>1 DEF Flows, Below
<1>12. Layered(H) /\ Within(H, said[u]) /\ All(F) \subseteq All(H)
  <2>1. 1 \in 1..6
    OBVIOUS
  <2> QED
    BY <1>3, <1>6, <1>11, <2>1, FlowOrder, FlowKeeps
<1>13. /\ G[1] = H[1] /\ G[2] = QNos(playing'[Peer(u)]) /\ G[3] = QNos(in'[Peer(u)])
       /\ \A i \in 1..7 : i # 2 /\ i # 2 + 1 => G[i] = H[i]
  <2>1. G[1] = H[1] /\ G[2] = QNos(playing'[Peer(u)]) /\ G[3] = QNos(in'[Peer(u)])
    BY <1>4, <1>5, <1>8, <1>10, NextPlaces
  <2>2. G[4] = F[4] /\ G[5] = F[5] /\ G[6] = F[6] /\ G[7] = F[7]
    BY <1>1, <1>5, Untouched
  <2>3. H[4] = F[4] /\ H[5] = F[5] /\ H[6] = F[6] /\ H[7] = F[7]
    BY <1>10
  <2> QED
    BY <2>1, <2>2, <2>3, Seven
<1>14. /\ \E A, C : Flows(H, G, 2, A, C) /\ H[2] \cup A \subseteq G[2]
       /\ QSorted(playing'[Peer(u)]) /\ QSorted(in'[Peer(u)])
  <2>1. CASE q = <<>>
    <3>1. playing'[Peer(u)] = <<>> /\ in'[Peer(u)] = <<>>
      BY <1>1, <1>2, <2>1, Types DEF Idle, Playing, Queues
    <3>2. G[2] = {} /\ G[3] = {} /\ H[3] = {} /\ QSorted(<<>>)
      BY <1>6, <1>10, <1>13, <2>1, <3>1, NoBuffers
    <3>3. Flows(H, G, 2, {}, {}) /\ H[2] \cup {} \subseteq G[2]
      BY <1>10, <1>13, <3>2 DEF Flows, Below
    <3> QED
      BY <3>1, <3>2, <3>3
  <2>2. CASE q # <<>>
    <3>1. PICK h, t : h = Head(q) /\ t = Tail(q)
      OBVIOUS
    <3>2. playing'[Peer(u)] = <<h>> /\ in'[Peer(u)] = t
      BY <1>1, <1>2, <2>2, <3>1, Types DEF Idle, Playing, Queues
    <3>3. /\ h \in Bytes /\ t \in Buffers /\ QNos(q) = Nos(h) \cup QNos(t)
          /\ Sorted(h) /\ QSorted(t) /\ Below(Nos(h), QNos(t))
      BY <1>3, <1>6, <2>2, <3>1, Taken
    <3>4. QNos(<<h>>) = Nos(h) /\ QSorted(<<h>>)
      BY <3>3, OneBuffer
    <3>5. G[2] = Nos(h) /\ G[3] = QNos(t) /\ H[3] = Nos(h) \cup QNos(t)
      BY <1>6, <1>10, <1>13, <3>2, <3>3, <3>4
    <3>6. Flows(H, G, 2, Nos(h), QNos(t)) /\ H[2] \cup Nos(h) \subseteq G[2]
      BY <1>10, <1>13, <3>3, <3>5 DEF Flows
    <3> QED
      BY <3>2, <3>3, <3>4, <3>6
  <2> QED
    BY <2>1, <2>2
<1>15. Layered(G) /\ Within(G, said[u]) /\ All(F) \subseteq All(G)
  <2>1. PICK A : \E C : Flows(H, G, 2, A, C) /\ H[2] \cup A \subseteq G[2]
    BY <1>14
  <2>2. PICK C : Flows(H, G, 2, A, C) /\ H[2] \cup A \subseteq G[2]
    BY <2>1
  <2>3. Layered(G) /\ Within(G, said[u]) /\ All(H) \subseteq All(G)
    BY <1>3, <1>12, <2>2, FlowOrder, FlowKeeps
  <2> QED
    BY <1>12, <2>3
<1>16. InOrder(u)'
  BY <1>1, <1>4, <1>5, <1>8, <1>14, <1>15 DEF InOrder
<1>17. Complete(u)'
  BY <1>1, <1>5, <1>15 DEF Complete
<1> QED
  BY <1>2, <1>4, <1>8, <1>16, <1>17

-----------------------------------------------------------------------------
(* Both directions together.                                               *)
Pipes == \A u \in User : InOrder(u) /\ Complete(u)

LEMMA PipesNext == TypeOK /\ Pipes /\ [Next]_vars => Pipes'
<1> SUFFICES ASSUME TypeOK, Pipes, [Next]_vars, NEW u \in User PROVE InOrder(u)' /\ Complete(u)'
  BY DEF Pipes
<1> USE DEF setup, recorder, queues, link, player, speech
<1>1. /\ InOrder(u) /\ Complete(u) /\ Peer(u) \in User /\ Peer(u) # u /\ Peer(Peer(u)) = u
      /\ \A v \in User : v = u \/ v = Peer(u)
  BY Users DEF Pipes
<1>2. /\ Strings /\ Queues /\ Speech /\ Controls /\ Playing
  BY Types
<1>3. CASE UNCHANGED <<heard, said, wire, out, buff, playing, in, data, bunched>>
  BY <1>1, <1>3, PipeStill
<1>4. ASSUME NEW v \in User, ByUser(v) \/ SetUp(v) \/ SendFails(v) \/ Start(v)
      PROVE  InOrder(u)' /\ Complete(u)'
  <2>1. CASE Speak(v)
    <3>1. CASE v = u
      BY <1>1, <2>1, <3>1, PipeSpeak
    <3>2. CASE v = Peer(u)
      <4>1. UNCHANGED <<heard, wire, out, playing, in, data, bunched>>
            /\ said'[u] = said[u] /\ buff'[u] = buff[u]
        BY <1>1, <1>2, <2>1, <3>2 DEF Speak, Strings, Speech
      <4> QED
        BY <1>1, <4>1, PipeStill
    <3> QED
      BY <1>1, <3>1, <3>2
  <2>2. CASE ~Speak(v)
    <3>1. UNCHANGED <<heard, said, wire, out, buff, playing, in, data, bunched>>
      BY <1>4, <2>2 DEF ByUser, Begin, ToggleMuteState, Quit, SetUp, Connect, Accept, SendFails, Start
    <3> QED
      BY <1>3, <3>1
  <2> QED
    BY <2>1, <2>2
<1>5. ASSUME NEW v \in User, StopRecording(v) \/ StartSending(v) PROVE InOrder(u)' /\ Complete(u)'
  <2>1. CASE v = u
    BY <1>1, <1>5, <2>1, PipeRecorded, PipeSent
  <2>2. CASE v = Peer(u)
    <3>1. UNCHANGED <<heard, said, playing, in, data, bunched>>
      BY <1>5 DEF StopRecording, StartSending
    <3>2. wire'[u] = wire[u] /\ out'[u] = out[u] /\ buff'[u] = buff[u]
      BY <1>1, <1>2, <1>5, <2>2 DEF StopRecording, StartSending, Strings, Queues
    <3> QED
      BY <1>1, <3>1, <3>2, PipeStill
  <2> QED
    BY <1>1, <2>1, <2>2
<1>6. ASSUME NEW v \in User, Receive(v) \/ Run(v) \/ Idle(v) PROVE InOrder(u)' /\ Complete(u)'
  <2>1. CASE v = Peer(u)
    BY <1>1, <1>6, <2>1, PipeRead, PipePushed, PipeRun, PipeIdle DEF Receive
  <2>2. CASE v = u
    <3>1. UNCHANGED <<said, buff, out>>
      BY <1>6 DEF Receive, ReadSome, PushData, Done, Run, Idle, Finished
    <3>2. wire'[u] = wire[u]
      BY <1>1, <1>2, <1>6, <2>2 DEF Receive, ReadSome, PushData, Done, Run, Idle, Finished, Strings
    <3>3. heard'[u] = heard[u]
      BY <1>1, <1>2, <1>6, <2>2 DEF Receive, ReadSome, PushData, Done, Run, Idle, Finished, Speech
    <3>4. data'[Peer(u)] = data[Peer(u)] /\ bunched'[Peer(u)] = bunched[Peer(u)]
      BY <1>1, <1>2, <1>6, <2>2
      DEF Receive, ReadSome, PushData, Done, Run, Idle, Finished, Strings, Controls
    <3>5. in'[Peer(u)] = in[Peer(u)] /\ playing'[Peer(u)] = playing[Peer(u)]
      BY <1>1, <1>2, <1>6, <2>2
      DEF Receive, ReadSome, PushData, Done, Run, Idle, Finished, Queues, Playing
    <3> QED
      BY <1>1, <3>1, <3>2, <3>3, <3>4, <3>5, PipeStill
  <2> QED
    BY <1>1, <2>1, <2>2
<1>7. CASE UNCHANGED vars
  BY <1>3, <1>7 DEF vars
<1> QED
  BY <1>4, <1>5, <1>6, <1>7 DEF Next

LEMMA PipesInit == Init => Pipes
BY PipeInit DEF Pipes

LEMMA PipesSuffice == ASSUME TypeOK, Pipes PROVE NoneLostUnlessBunched
<1> SUFFICES ASSUME NEW u \in User
             PROVE  1..said[u] \subseteq OnTheWay(u) \cup Range(heard[u]) \cup bunched[Peer(u)]
  BY DEF NoneLostUnlessBunched
<1>1. 1..said[u] \subseteq All(Pipe(u)) \cup bunched[Peer(u)] /\ Peer(u) \in User
  BY Users DEF Pipes, Complete
<1>2. /\ data[Peer(u)] \in Bytes /\ wire[u] \in Bytes /\ buff[u] \in Bytes
      /\ out[u] \in Buffers /\ in[Peer(u)] \in Buffers /\ playing[Peer(u)] \in Buffers
  BY <1>1, PlaceTypes
<1>3. \A b \in Bytes : Nos(b) \subseteq Range(Numbers(b))
  BY NumbersHeard
<1>4. Pipe(u)[4] \subseteq OnTheWay(u) /\ Pipe(u)[5] \subseteq OnTheWay(u) /\ Pipe(u)[7] \subseteq OnTheWay(u)
  <2>1. /\ Nos(data[Peer(u)]) \subseteq Range(Numbers(data[Peer(u)]))
        /\ Nos(wire[u]) \subseteq Range(Numbers(wire[u]))
        /\ Nos(buff[u]) \subseteq Range(Numbers(buff[u]))
    BY <1>2, <1>3
  <2> QED
    BY <2>1, Places DEF OnTheWay
<1>5. ASSUME NEW q \in Buffers, Range(q) \subseteq Range(out[u]) \cup Range(in[Peer(u)]) \cup Range(playing[Peer(u)])
      PROVE  QNos(q) \subseteq OnTheWay(u)
  <2> SUFFICES ASSUME NEW j \in DOMAIN q PROVE Nos(q[j]) \subseteq OnTheWay(u)
    BY DEF QNos
  <2>1. q[j] \in Bytes
    BY LenProperties DEF Buffers
  <2>2. q[j] \in Range(q)
    BY DEF Range
  <2>3. Range(Numbers(q[j])) \subseteq OnTheWay(u)
    BY <1>5, <2>2 DEF OnTheWay
  <2> QED
    BY <1>3, <2>1, <2>3
<1>6. Pipe(u)[2] \subseteq OnTheWay(u) /\ Pipe(u)[3] \subseteq OnTheWay(u) /\ Pipe(u)[6] \subseteq OnTheWay(u)
  BY <1>2, <1>5, Places
<1>7. Pipe(u)[1] \subseteq Range(heard[u])
  BY Places
<1>8. All(Pipe(u)) \subseteq OnTheWay(u) \cup Range(heard[u])
  BY <1>4, <1>6, <1>7, Seven DEF All
<1> QED
  BY <1>1, <1>8

(* Nothing that was said gets lost between the recorder and the player but *)
(* samples of a read that went beyond its line, or that held a newline or  *)
(* a zero; what any other read took, and all not yet read, is still there. *)
THEOREM NothingLost == Spec => []NoneLostUnlessBunched
<1>1. TypeOK /\ Pipes /\ [Next]_vars => (TypeOK /\ Pipes)'
  BY NextTypes, PipesNext
<1>2. Init => TypeOK /\ Pipes
  BY InitTypes, PipesInit
<1>3. TypeOK /\ Pipes => NoneLostUnlessBunched
  BY PipesSuffice
<1> QED
  BY <1>1, <1>2, <1>3, PTL DEF Spec

LEMMA StepOfLine ==
  TypeOK /\ Pipes /\ Pipes' /\ TypeOK' /\ [Next]_vars => [LineSpec!Next]_(LineSpec!vars)
<1> SUFFICES ASSUME TypeOK, Pipes, Pipes', TypeOK', Next PROVE [LineSpec!Next]_(LineSpec!vars)
  <2>1. UNCHANGED vars => UNCHANGED LineSpec!vars
    BY DEF vars, speech, LineSpec!vars
  <2> QED
    BY <2>1
<1> USE DEF setup, recorder, queues, link, player, speech
<1>1. PICK v \in User :
        \/ ByUser(v) \/ SetUp(v) \/ StopRecording(v)
        \/ StartSending(v) \/ SendFails(v) \/ Start(v) \/ Receive(v) \/ Run(v) \/ Idle(v)
  BY DEF Next
<1>2. CASE Speak(v)
  <2>1. LineSpec!Say(v)
    BY <1>2 DEF Speak, LineSpec!Say
  <2> QED
    BY <2>1 DEF LineSpec!Next
<1>3. CASE Idle(v)
  <2>1. PICK u \in User : v = Peer(u)
    BY Users
  <2>2. heard' = [heard EXCEPT ![u] = heard'[u]] /\ IsPrefix(heard[u], heard'[u])
    BY <1>3, <2>1, PipeIdle DEF Pipes
  <2>3. UNCHANGED said
    BY <1>3 DEF Idle, Finished
  <2>4. InOrder(u)'
    BY DEF Pipes
  <2>5. LineSpec!Ascending(heard'[u])
    BY <2>4 DEF InOrder
  <2>6. Range(heard'[u]) \subseteq 0..said[u]
    <3>1. Range(heard'[u]) \ {0} \subseteq 1..said'[u]
      <4>1. Within(Pipe(u)', said'[u]) /\ 1 \in 1..7
        BY <2>4 DEF InOrder
      <4> QED
        BY <4>1, NextPlaces DEF Within
    <3>2. said[u] \in Nat
      BY PlaceTypes
    <3>3. \A x \in 1..said[u] : x \in 0..said[u]
      BY <3>2
    <3>4. 0 \in 0..said[u]
      BY <3>2
    <3> QED
      BY <2>3, <3>1, <3>3, <3>4
  <2>7. LineSpec!Hear(u)
    BY <2>2, <2>3, <2>5, <2>6
    DEF LineSpec!Hear, LineSpec!IsPrefix, IsPrefix, LineSpec!Range, Range
  <2> QED
    BY <2>7 DEF LineSpec!Next
<1>4. CASE ~Speak(v) /\ ~Idle(v)
  <2>1. UNCHANGED <<said, heard>>
    BY <1>1, <1>4
    DEF ByUser, Begin, ToggleMuteState, Quit, SetUp, Connect, Accept, StopRecording, StartSending,
        SendFails, Start, Receive, ReadSome, PushData, Done, Run
  <2> QED
    BY <2>1 DEF LineSpec!vars
<1> QED
  BY <1>2, <1>3, <1>4

(* The other end hears what was said in the order it was said, each sample *)
(* at most once, through recorder, queues, cuts of the stream and player.  *)
THEOREM Refinement == Spec => HeardInOrder
<1>1. Init => LineSpec!Init
  BY DEF Init, LineSpec!Init
<1>2. TypeOK /\ Pipes /\ [Next]_vars => (TypeOK /\ Pipes)'
  BY NextTypes, PipesNext
<1>3. Init => TypeOK /\ Pipes
  BY InitTypes, PipesInit
<1>4. TypeOK /\ Pipes /\ (TypeOK /\ Pipes)' /\ [Next]_vars => [LineSpec!Next]_(LineSpec!vars)
  BY StepOfLine
<1> QED
  BY <1>1, <1>2, <1>3, <1>4, PTL DEF Spec, HeardInOrder, LineSpec!Spec
=============================================================================
