------------------------ MODULE ResultsStreamProofs ------------------------
(***************************************************************************)
(* Proofs about the results file, for any number of runs and of records:   *)
(* whatever is cut off, no line is made of two records and a record that   *)
(* was written stays a line.                                               *)
(***************************************************************************)
EXTENDS ResultsStream, TLAPS

\* Record r is a line of f of its own, from i on.
LineAt(f, r, i) ==
    /\ i \in 1 .. Len(f) - 2
    /\ i = 1 \/ f[i - 1] = NL
    /\ f[i] = <<r, 1>> /\ f[i + 1] = <<r, 2>> /\ f[i + 2] = NL

NotJoined(f) ==
    \A i \in DOMAIN f : f[i] # NL /\ i > 1 /\ f[i - 1] # NL => f[i][1] = f[i - 1][1]

Bounds == MaxWrites \in Nat /\ MaxRuns \in Nat

\* The inductive invariant: a run that has not failed to write is at the start of a line, and
\* what was synced is out of a crash's reach.
FileInv ==
    /\ Bounds
    /\ TypeOK
    /\ open /\ ~torn /\ file # <<>> => file[Len(file)] = NL
    /\ NotJoined(file)
    /\ \A r \in written : \E i \in 1 .. Len(file) : LineAt(file, r, i)
    /\ \A r \in durable : \E i \in 1 .. Len(file) : LineAt(file, r, i) /\ i + 2 <= synced

Pieces == ((1 .. MaxWrites) \X {1, 2}) \union {NL}

\* A newline is no piece of a record.
LEMMA NotNewline == \A k \in Nat \ {0}, m \in {1, 2} : <<k, m>> # NL /\ <<k, m>>[1] = k
  BY DEF NL

\* What two sequences are one after the other.
LEMMA Joined ==
    ASSUME NEW S, NEW q \in Seq(S), NEW t \in Seq(S)
    PROVE  /\ q \o t \in Seq(S) /\ Len(q \o t) = Len(q) + Len(t)
           /\ \A i \in 1 .. Len(q) : (q \o t)[i] = q[i]
           /\ \A m \in 1 .. Len(t) : (q \o t)[Len(q) + m] = t[m]
  OBVIOUS

\* The start of a sequence.
LEMMA Started ==
    ASSUME NEW S, NEW q \in Seq(S), NEW n \in 0 .. Len(q)
    PROVE  /\ SubSeq(q, 1, n) \in Seq(S) /\ Len(SubSeq(q, 1, n)) = n
           /\ \A i \in 1 .. n : SubSeq(q, 1, n)[i] = q[i]
  OBVIOUS

\* What a sequence is after the first n elements of another.
LEMMA Extended ==
    ASSUME NEW S, NEW q \in Seq(S), NEW r \in Seq(S), NEW n \in 0 .. Len(r)
    PROVE  /\ q \o SubSeq(r, 1, n) \in Seq(S) /\ Len(q \o SubSeq(r, 1, n)) = Len(q) + n
           /\ \A i \in 1 .. Len(q) : (q \o SubSeq(r, 1, n))[i] = q[i]
           /\ \A m \in 1 .. n : (q \o SubSeq(r, 1, n))[Len(q) + m] = r[m]
  <1> DEFINE t == SubSeq(r, 1, n)
  <1>1. t \in Seq(S) /\ Len(t) = n /\ \A m \in 1 .. n : t[m] = r[m]
    BY Started, Zenon
  <1> HIDE DEF t
  <1>2. /\ q \o t \in Seq(S) /\ Len(q \o t) = Len(q) + n
        /\ \A i \in 1 .. Len(q) : (q \o t)[i] = q[i]
        /\ \A m \in 1 .. n : (q \o t)[Len(q) + m] = t[m]
    <2>1. ASSUME NEW u \in Seq(S)
          PROVE  /\ q \o u \in Seq(S) /\ Len(q \o u) = Len(q) + Len(u)
                 /\ \A i \in 1 .. Len(q) : (q \o u)[i] = q[i]
                 /\ \A m \in 1 .. Len(u) : (q \o u)[Len(q) + m] = u[m]
      BY Joined
    <2> QED BY ONLY <1>1, <2>1, Zenon
  <1> QED BY <1>1, <1>2, Zenon DEF t

\* A line, after the newline that closes a torn one.
LEMMA LineIs ==
    ASSUME NEW k \in 1 .. MaxWrites, torn \in BOOLEAN
    PROVE  /\ Line(k) \in Seq(Pieces)
           /\ torn => /\ Len(Line(k)) = 4 /\ Line(k)[1] = NL
                      /\ Line(k)[2] = <<k, 1>> /\ Line(k)[3] = <<k, 2>>
                      /\ Line(k)[4] = NL
           /\ ~torn => /\ Len(Line(k)) = 3 /\ Line(k)[1] = <<k, 1>>
                       /\ Line(k)[2] = <<k, 2>> /\ Line(k)[3] = NL
  <1>1. <<k, 1>> \in Pieces /\ <<k, 2>> \in Pieces /\ NL \in Pieces
    BY DEF Pieces
  <1>2. ASSUME NEW a \in Pieces, NEW b \in Pieces, NEW c \in Pieces
        PROVE  /\ Append(<<a, b>>, c) \in Seq(Pieces) /\ Len(Append(<<a, b>>, c)) = 3
               /\ Append(<<a, b>>, c)[1] = a /\ Append(<<a, b>>, c)[2] = b /\ Append(<<a, b>>, c)[3] = c
    OBVIOUS
  <1>3. ASSUME NEW d \in Pieces, NEW q \in Seq(Pieces), Len(q) = 3
        PROVE  /\ <<d>> \o q \in Seq(Pieces) /\ Len(<<d>> \o q) = 4 /\ (<<d>> \o q)[1] = d
               /\ (<<d>> \o q)[2] = q[1] /\ (<<d>> \o q)[3] = q[2] /\ (<<d>> \o q)[4] = q[3]
    <2>1. <<d>> \in Seq(Pieces) /\ Len(<<d>>) = 1 /\ <<d>>[1] = d
      OBVIOUS
    <2>2. ASSUME NEW t \in Seq(Pieces), Len(t) = 1
          PROVE  /\ t \o q \in Seq(Pieces) /\ Len(t \o q) = 4 /\ (t \o q)[1] = t[1]
                 /\ (t \o q)[2] = q[1] /\ (t \o q)[3] = q[2] /\ (t \o q)[4] = q[3]
      <3>1. /\ t \o q \in Seq(Pieces)
            /\ Len(t \o q) = Len(t) + Len(q)
            /\ \A j \in 1 .. Len(t) : (t \o q)[j] = t[j]
            /\ \A j \in 1 .. Len(q) : (t \o q)[Len(t) + j] = q[j]
        BY Joined
      <3>2. 1 \in 1 .. Len(t) /\ 1 \in 1 .. Len(q) /\ 2 \in 1 .. Len(q) /\ 3 \in 1 .. Len(q)
        BY ONLY <1>3, <2>2
      <3>3. (t \o q)[1] = t[1] /\ (t \o q)[Len(t) + 1] = q[1]
            /\ (t \o q)[Len(t) + 2] = q[2] /\ (t \o q)[Len(t) + 3] = q[3]
        BY ONLY <3>1, <3>2
      <3>4. Len(t) + Len(q) = 4 /\ Len(t) + 1 = 2 /\ Len(t) + 2 = 3 /\ Len(t) + 3 = 4
        BY ONLY <1>3, <2>2
      <3> QED BY ONLY <3>1, <3>3, <3>4
    <2> QED BY <2>1, <2>2, Zenon
  <1>8. ASSUME NEW q \in Seq(Pieces), Len(q) = 3
        PROVE  /\ <<>> \o q \in Seq(Pieces) /\ Len(<<>> \o q) = 3
               /\ (<<>> \o q)[1] = q[1] /\ (<<>> \o q)[2] = q[2] /\ (<<>> \o q)[3] = q[3]
    BY <1>8
  <1> DEFINE q == Append(<<<<k, 1>>, <<k, 2>>>>, NL)
  <1>4. /\ q \in Seq(Pieces) /\ Len(q) = 3
        /\ q[1] = <<k, 1>> /\ q[2] = <<k, 2>> /\ q[3] = NL
    BY <1>1, <1>2
  <1>5. Line(k) = (IF torn THEN <<NL>> ELSE <<>>) \o q
    BY DEF Line, Record
  <1> HIDE DEF q
  <1>6. CASE torn
    BY <1>1, <1>3, <1>4, <1>5, <1>6
  <1>7. CASE ~torn
    <2>1. Line(k) = <<>> \o q
      BY <1>5, <1>7
    <2>2. /\ <<>> \o q \in Seq(Pieces) /\ Len(<<>> \o q) = 3
          /\ (<<>> \o q)[1] = q[1] /\ (<<>> \o q)[2] = q[2] /\ (<<>> \o q)[3] = q[3]
      BY ONLY <1>4, <1>8
    <2> QED BY <1>4, <1>7, <2>1, <2>2, Zenon
  <1> QED BY <1>6, <1>7

\* No two records meet within a line, and it starts with a newline when the mark is set.
LEMMA LineWithin ==
    ASSUME NEW k \in 1 .. MaxWrites, torn \in BOOLEAN
    PROVE  /\ torn => Line(k)[1] = NL
           /\ \A m \in 2 .. Len(Line(k)) :
                Line(k)[m] # NL /\ Line(k)[m - 1] # NL
                => Line(k)[m][1] = Line(k)[m - 1][1]
  <1> DEFINE l == Line(k)
  <1>1. /\ torn => /\ Len(l) = 4 /\ l[1] = NL /\ l[2] = <<k, 1>> /\ l[3] = <<k, 2>>
                   /\ l[4] = NL
        /\ ~torn => Len(l) = 3 /\ l[1] = <<k, 1>> /\ l[2] = <<k, 2>> /\ l[3] = NL
    BY LineIs
  <1> HIDE DEF l
  <1>2. <<k, 1>>[1] = <<k, 2>>[1]
    OBVIOUS
  <1>3. ASSUME NEW m \in 2 .. Len(l), l[m] # NL, l[m - 1] # NL
        PROVE  l[m][1] = l[m - 1][1]
    <2>1. CASE torn
      <3>0. Len(l) = 4
        BY ONLY <1>1, <2>1
      <3>1. m = 2 \/ m = 3 \/ m = 4
        BY ONLY <3>0, m \in 2 .. Len(l)
      <3>2. m - 1 = 1 \/ m = 3 \/ m = 4
        BY <3>1
      <3>3. m = 3 => m - 1 = 2
        OBVIOUS
      <3> QED BY ONLY <1>1, <1>2, <1>3, <2>1, <3>2, <3>3
    <2>2. CASE ~torn
      <3>0. Len(l) = 3
        BY ONLY <1>1, <2>2
      <3>1. m = 2 \/ m = 3
        BY ONLY <3>0, m \in 2 .. Len(l)
      <3>2. m = 2 => m - 1 = 1
        OBVIOUS
      <3> QED BY ONLY <1>1, <1>2, <1>3, <2>2, <3>1, <3>2
    <2> QED BY <2>1, <2>2
  <1> QED BY <1>1, <1>3 DEF l

\* A line stays one in a sequence that has the same elements up to its end.
LEMMA LineMoves ==
    ASSUME NEW f, NEW g, NEW r, NEW i, NEW m \in Nat, Len(f) \in Nat, Len(g) \in Nat,
           m <= Len(g), \A j \in 1 .. m : g[j] = f[j], LineAt(f, r, i), i + 2 <= m
    PROVE  LineAt(g, r, i) /\ i \in 1 .. Len(g)
  <1>1. i \in Nat /\ 1 <= i
    BY DEF LineAt
  <1>2. i \in 1 .. m /\ i + 1 \in 1 .. m /\ i + 2 \in 1 .. m /\ (i = 1 \/ i - 1 \in 1 .. m)
    BY <1>1
  <1>3. i \in 1 .. Len(g) - 2 /\ i \in 1 .. Len(g)
    BY <1>1
  <1> QED BY <1>2, <1>3 DEF LineAt

\* The file after the first n pieces of a line: nothing that was one is not a line any more, no
\* two records are joined, and after all of them the line is one.
LEMMA WriteKeeps ==
    ASSUME FileInv, open, writes < MaxWrites, NEW n \in 0 .. Len(Line(writes + 1)),
           NEW g \in Seq(Pieces), Len(g) = Len(file) + n,
           \A i \in 1 .. Len(file) : g[i] = file[i],
           \A m \in 1 .. n : g[Len(file) + m] = Line(writes + 1)[m]
    PROVE  /\ NotJoined(g)
           /\ \A r \in written : \E i \in 1 .. Len(g) : LineAt(g, r, i)
           /\ \A r \in durable : \E i \in 1 .. Len(g) : LineAt(g, r, i) /\ i + 2 <= synced
           /\ n = Len(Line(writes + 1))
              => /\ g[Len(g)] = NL
                 /\ LineAt(g, writes + 1, Len(g) - 2) /\ Len(g) - 2 \in 1 .. Len(g)
  <1> DEFINE k == writes + 1
             l == Line(k)
  <1>1. /\ k \in 1 .. MaxWrites /\ torn \in BOOLEAN /\ writes \in Nat
        /\ Len(file) \in Nat /\ Len(g) \in Nat
    BY DEF FileInv, Bounds, TypeOK
  <1>2. /\ l \in Seq(Pieces)
        /\ torn => /\ Len(l) = 4 /\ l[1] = NL /\ l[2] = <<k, 1>> /\ l[3] = <<k, 2>>
                   /\ l[4] = NL
        /\ ~torn => Len(l) = 3 /\ l[1] = <<k, 1>> /\ l[2] = <<k, 2>> /\ l[3] = NL
    BY <1>1, LineIs, Zenon
  <1>3. /\ torn => l[1] = NL
        /\ \A m \in 2 .. Len(l) :
             l[m] # NL /\ l[m - 1] # NL => l[m][1] = l[m - 1][1]
    BY <1>1, LineWithin
  <1>4. n \in 0 .. Len(l) /\ Len(l) \in Nat /\ n \in Nat /\ \A m \in 1 .. n : g[Len(file) + m] = l[m]
    BY <1>2
  <1>5. ~torn /\ file # <<>> => file[Len(file)] = NL
    BY DEF FileInv
  <1> HIDE DEF k, l
  <1>6. NotJoined(g)
    <2> SUFFICES ASSUME NEW i \in DOMAIN g, g[i] # NL, i > 1, g[i - 1] # NL
                 PROVE  g[i][1] = g[i - 1][1]
      BY DEF NotJoined
    <2>1. i \in 1 .. Len(g) /\ i \in Nat
      OBVIOUS
    <2>2. CASE i <= Len(file)
      <3>1. i \in 1 .. Len(file) /\ i - 1 \in 1 .. Len(file)
        BY <1>1, <2>1, <2>2
      <3>2. i \in DOMAIN file
        BY <3>1 DEF FileInv, Bounds, TypeOK
      <3>3. g[i] = file[i] /\ g[i - 1] = file[i - 1]
        BY <3>1
      <3> QED BY <3>2, <3>3 DEF FileInv, NotJoined
    <2>3. CASE i = Len(file) + 1
      <3>1. 1 \in 1 .. n /\ i - 1 = Len(file) /\ Len(file) \in 1 .. Len(file)
        BY <1>1, <1>4, <2>1, <2>3
      <3>2. g[i] = l[1]
        BY <1>4, <2>3, <3>1
      <3>3. ~torn
        BY <1>3, <3>2
      <3>4. file # <<>>
        BY <3>1
      <3>5. g[i - 1] = NL
        BY <1>5, <3>1, <3>3, <3>4
      <3> QED BY <3>5
    <2>4. CASE i > Len(file) + 1
      <3> DEFINE m == i - Len(file)
      <3>1. /\ m \in 2 .. Len(l) /\ m \in 1 .. n /\ m - 1 \in 1 .. n
            /\ i = Len(file) + m /\ i - 1 = Len(file) + (m - 1)
        <4>1. /\ Len(file) \in Nat /\ i \in Nat /\ n \in Nat /\ Len(l) \in Nat
              /\ i <= Len(file) + n /\ i > Len(file) + 1 /\ n <= Len(l)
          BY <1>1, <1>4, <2>1, <2>4
        <4>2. ASSUME NEW x \in Nat, NEW y \in Nat, NEW z \in Nat, NEW w \in Nat,
                     x <= y + z, x > y + 1, z <= w
              PROVE  /\ x - y \in 2 .. w /\ x - y \in 1 .. z /\ (x - y) - 1 \in 1 .. z
                     /\ x = y + (x - y) /\ x - 1 = y + ((x - y) - 1)
          BY ONLY <4>2
        <4> QED BY ONLY <4>1, <4>2, Zenon
      <3> HIDE DEF m
      <3>2. g[i] = l[m] /\ g[i - 1] = l[m - 1]
        BY <1>4, <3>1
      <3> QED BY <1>3, <3>1, <3>2, Zenon
    <2> QED BY <1>1, <2>1, <2>2, <2>3, <2>4
  <1>7. ASSUME NEW r, NEW i, LineAt(file, r, i)
        PROVE  LineAt(g, r, i) /\ i \in 1 .. Len(g)
    <2>1. i + 2 <= Len(file)
      BY <1>1, <1>7 DEF LineAt
    <2>2. Len(file) <= Len(g)
      BY <1>1, <1>4
    <2> QED BY <1>1, <1>7, <2>1, <2>2, LineMoves, Zenon
  <1>8. ASSUME n = Len(l)
        PROVE  /\ g[Len(g)] = NL
               /\ LineAt(g, k, Len(g) - 2) /\ Len(g) - 2 \in 1 .. Len(g)
    <2> DEFINE b == Len(file)
    <2>1. CASE torn
      <3>0. n = 4 /\ Len(g) = b + n
        BY <1>2, <1>8, <2>1
      <3>1. Len(g) = b + 4 /\ 1 \in 1 .. n /\ 2 \in 1 .. n /\ 3 \in 1 .. n /\ 4 \in 1 .. n
        BY ONLY <3>0
      <3>2. g[b + 1] = NL /\ g[b + 2] = <<k, 1>> /\ g[b + 3] = <<k, 2>> /\ g[b + 4] = NL
        BY <1>2, <1>4, <2>1, <3>1
      <3>3. /\ Len(g) - 2 = b + 2 /\ b + 2 \in 1 .. Len(g) /\ b + 2 \in 1 .. Len(g) - 2
            /\ (b + 2) - 1 = b + 1 /\ (b + 2) + 1 = b + 3 /\ (b + 2) + 2 = b + 4
        BY <1>1, <3>1
      <3> HIDE DEF b
      <3> QED BY ONLY <3>1, <3>2, <3>3 DEF LineAt
    <2>2. CASE ~torn
      <3>0. n = 3 /\ Len(g) = b + n
        BY <1>2, <1>8, <2>2
      <3>1. Len(g) = b + 3 /\ 1 \in 1 .. n /\ 2 \in 1 .. n /\ 3 \in 1 .. n
        BY ONLY <3>0
      <3>2. g[b + 1] = <<k, 1>> /\ g[b + 2] = <<k, 2>> /\ g[b + 3] = NL
        BY <1>2, <1>4, <2>2, <3>1
      <3>3. /\ Len(g) - 2 = b + 1 /\ b + 1 \in 1 .. Len(g) /\ b + 1 \in 1 .. Len(g) - 2
            /\ (b + 1) - 1 = b /\ (b + 1) + 1 = b + 2 /\ (b + 1) + 2 = b + 3
        BY <1>1, <3>1
      <3>4. b + 1 = 1 \/ g[b] = NL
        <4>1. CASE file = <<>>
          BY <4>1
        <4>2. CASE file # <<>>
          <5>1. file[b] = NL
            BY <1>5, <2>2, <4>2
          <5>2. b \in 1 .. Len(file)
            BY <4>2 DEF FileInv, Bounds, TypeOK
          <5> QED BY <5>1, <5>2
        <4> QED BY <4>1, <4>2
      <3> HIDE DEF b
      <3> QED BY ONLY <3>1, <3>2, <3>3, <3>4, Zenon DEF LineAt
    <2> QED BY <2>1, <2>2
  <1>9. \A r \in written : \E i \in 1 .. Len(g) : LineAt(g, r, i)
    BY <1>7 DEF FileInv
  <1>10. \A r \in durable : \E i \in 1 .. Len(g) : LineAt(g, r, i) /\ i + 2 <= synced
    BY <1>7 DEF FileInv
  <1> QED BY <1>6, <1>8, <1>9, <1>10 DEF k, l

\* The first n pieces of a line, in the file.
LEMMA PiecesOfLine ==
    ASSUME FileInv, writes < MaxWrites, NEW n \in 0 .. Len(Line(writes + 1))
    PROVE  LET g == file \o SubSeq(Line(writes + 1), 1, n)
           IN  /\ g \in Seq(Pieces) /\ Len(g) = Len(file) + n
               /\ \A i \in 1 .. Len(file) : g[i] = file[i]
               /\ \A m \in 1 .. n : g[Len(file) + m] = Line(writes + 1)[m]
  <1>1. writes + 1 \in 1 .. MaxWrites /\ torn \in BOOLEAN /\ file \in Seq(Pieces)
    BY DEF FileInv, Bounds, TypeOK, Pieces
  <1>2. Line(writes + 1) \in Seq(Pieces)
    BY <1>1, LineIs
  <1> QED BY <1>1, <1>2, Extended

\* All of a line.
LEMMA WholeLine ==
    ASSUME FileInv, writes < MaxWrites
    PROVE  LET g == file \o Line(writes + 1)
           IN  /\ g \in Seq(Pieces) /\ Len(g) = Len(file) + Len(Line(writes + 1))
               /\ Len(Line(writes + 1)) \in 0 .. Len(Line(writes + 1))
               /\ \A i \in 1 .. Len(file) : g[i] = file[i]
               /\ \A m \in 1 .. Len(Line(writes + 1)) : g[Len(file) + m] = Line(writes + 1)[m]
  <1>1. writes + 1 \in 1 .. MaxWrites /\ torn \in BOOLEAN /\ file \in Seq(Pieces)
    BY DEF FileInv, Bounds, TypeOK, Pieces
  <1>2. Line(writes + 1) \in Seq(Pieces)
    BY <1>1, LineIs
  <1>3. Len(Line(writes + 1)) \in Nat
    BY ONLY <1>2
  <1>4. Len(Line(writes + 1)) \in 0 .. Len(Line(writes + 1))
    BY ONLY <1>3
  <1> QED BY <1>1, <1>2, <1>4, Joined

\* At first there is no file.
LEMMA FileInit == Bounds /\ Init => FileInv
  <1> SUFFICES ASSUME Bounds, Init PROVE FileInv
    OBVIOUS
  <1>1. {open, torn} \subseteq BOOLEAN
    BY Zenon DEF Init
  <1>2. /\ file \in Seq(Pieces) /\ synced \in 0 .. Len(file)
        /\ DOMAIN file = {}
    BY DEF Init
  <1>3. writes \in 0 .. MaxWrites /\ runs \in 0 .. MaxRuns
    BY DEF Init, Bounds
  <1>4. durable \subseteq written /\ written \subseteq 1 .. writes
    BY DEF Init
  <1>5. NotJoined(file)
    BY <1>2 DEF NotJoined
  <1>6. TypeOK
    BY <1>1, <1>2, <1>3, <1>4 DEF TypeOK, Pieces
  <1> QED BY <1>5, <1>6 DEF FileInv, Init

\* A run opens the file, after the line that was left unfinished if there is one.
LEMMA OpenKeeps ==
    ASSUME FileInv, OpenStream
    PROVE  FileInv'
  <1>1. /\ file \in Seq(Pieces) /\ Len(file) \in Nat /\ runs' \in 0 .. MaxRuns
        /\ synced \in 0 .. Len(file)
    BY DEF FileInv, Bounds, TypeOK, OpenStream, Pieces
  <1>2. CASE file' = file /\ (open' => ~EndsMidLine)
    <2>1. TypeOK'
      <3>1. open' \in BOOLEAN /\ torn' \in BOOLEAN
        BY Zenon DEF FileInv, Bounds, TypeOK, OpenStream
      <3> QED BY <1>1, <1>2, <3>1 DEF FileInv, Bounds, TypeOK, OpenStream
    <2>2. (open /\ ~torn /\ file # <<>> => file[Len(file)] = NL)'
      BY <1>2 DEF FileInv, OpenStream, EndsMidLine
    <2> QED BY <1>2, <2>1, <2>2 DEF FileInv, OpenStream
  <1>3. CASE file' = Append(file, NL) /\ open' = TRUE /\ torn' = FALSE
    <2>1. ASSUME NEW q \in Seq(Pieces), NEW x \in Pieces
          PROVE  /\ Append(q, x) \in Seq(Pieces) /\ Len(Append(q, x)) = Len(q) + 1
                 /\ \A i \in 1 .. Len(q) : Append(q, x)[i] = q[i]
                 /\ Append(q, x)[Len(q) + 1] = x
      OBVIOUS
    <2>2. NL \in Pieces
      BY DEF Pieces
    <2>3. /\ file' \in Seq(Pieces) /\ Len(file') = Len(file) + 1
          /\ \A i \in 1 .. Len(file) : file'[i] = file[i]
          /\ file'[Len(file) + 1] = NL
      BY ONLY <1>1, <1>3, <2>1, <2>2
    <2>4. synced' \in 0 .. Len(file') /\ Len(file) <= Len(file')
      BY <1>1, <2>3 DEF OpenStream
    <2>5. TypeOK'
      BY <1>1, <1>3, <2>3, <2>4, Zenon DEF FileInv, Bounds, TypeOK, OpenStream, Pieces
    <2>6. NotJoined(file')
      <3> SUFFICES ASSUME NEW i \in DOMAIN file', file'[i] # NL, i > 1,
                          file'[i - 1] # NL
                   PROVE  file'[i][1] = file'[i - 1][1]
        BY DEF NotJoined
      <3>1. i \in 1 .. Len(file) + 1
        BY <2>3
      <3>2. i # Len(file) + 1
        BY <2>3
      <3>3. i \in 1 .. Len(file) /\ i - 1 \in 1 .. Len(file) /\ i \in DOMAIN file
        BY <1>1, <3>1, <3>2
      <3> QED BY <2>3, <3>3 DEF FileInv, NotJoined
    <2>7. ASSUME NEW r, NEW i, LineAt(file, r, i)
          PROVE  LineAt(file', r, i) /\ i \in 1 .. Len(file')
      <3>1. i + 2 <= Len(file)
        BY <1>1, <2>7 DEF LineAt
      <3>2. Len(file') \in Nat
        BY <1>1, <2>3
      <3> QED BY <1>1, <2>3, <2>4, <2>7, <3>1, <3>2, LineMoves, Zenon
    <2>8. \A r \in written' : \E i \in 1 .. Len(file') : LineAt(file', r, i)
      BY <2>7 DEF FileInv, OpenStream
    <2>9. \A r \in durable' : \E i \in 1 .. Len(file') : LineAt(file', r, i) /\ i + 2 <= synced'
      BY <2>7 DEF FileInv, OpenStream
    <2> QED BY <2>3, <2>5, <2>6, <2>8, <2>9 DEF FileInv
  <1>4. \/ open' = TRUE /\ torn' = FALSE /\ EndsMidLine /\ file' = Append(file, NL)
        \/ file' = file /\ ~EndsMidLine
        \/ file' = file /\ ~open'
    BY DEF OpenStream
  <1> QED BY <1>2, <1>3, <1>4, Zenon

\* A record is written, and a sync tried.
LEMMA WrittenKeeps ==
    ASSUME FileInv, NEW ok \in BOOLEAN, Written(ok)
    PROVE  FileInv'
  <1> DEFINE g == file \o Line(writes + 1)
  <1>1. /\ file' = g /\ open /\ writes < MaxWrites /\ writes' = writes + 1
        /\ open' = open /\ runs' = runs /\ torn' = FALSE
        /\ written' = written \union {writes + 1}
    BY DEF Written
  <1>2. /\ g \in Seq(Pieces) /\ Len(g) = Len(file) + Len(Line(writes + 1))
        /\ Len(Line(writes + 1)) \in 0 .. Len(Line(writes + 1))
        /\ \A i \in 1 .. Len(file) : g[i] = file[i]
        /\ \A m \in 1 .. Len(Line(writes + 1)) :
             g[Len(file) + m] = Line(writes + 1)[m]
    BY <1>1, WholeLine, Zenon
  <1>3. /\ NotJoined(g)
        /\ \A r \in written : \E i \in 1 .. Len(g) : LineAt(g, r, i)
        /\ \A r \in durable : \E i \in 1 .. Len(g) : LineAt(g, r, i) /\ i + 2 <= synced
        /\ g[Len(g)] = NL
        /\ LineAt(g, writes + 1, Len(g) - 2) /\ Len(g) - 2 \in 1 .. Len(g)
    BY <1>1, <1>2, WriteKeeps, Zenon
  <1> HIDE DEF g
  <1>4. Len(g) \in Nat /\ Len(g) >= Len(file) /\ Len(file) \in Nat
    BY <1>2 DEF FileInv, Bounds, TypeOK
  <1>5. \A r \in written' : \E i \in 1 .. Len(file') : LineAt(file', r, i)
    BY <1>1, <1>3
  <1>8. /\ file' \in Seq(Pieces) /\ {open', torn'} \subseteq BOOLEAN
        /\ writes' \in 0 .. MaxWrites /\ runs' \in 0 .. MaxRuns
        /\ written' \subseteq 1 .. writes'
    <2>1. {open', torn'} \subseteq BOOLEAN
      BY <1>1, Zenon DEF FileInv, Bounds, TypeOK
    <2>2. file' \in Seq(Pieces)
      BY <1>1, <1>2
    <2>3. /\ writes' \in 0 .. MaxWrites /\ runs' \in 0 .. MaxRuns
          /\ written' \subseteq 1 .. writes'
      BY <1>1 DEF FileInv, Bounds, TypeOK
    <2> QED BY <2>1, <2>2, <2>3
  <1>6. CASE ok
    <2>1. synced' = Len(g) /\ durable' = written'
      BY <1>1, <1>6 DEF Written, Sync
    <2>2. \A r, i : LineAt(g, r, i) => i + 2 <= Len(g)
      BY <1>4 DEF LineAt
    <2>3. \A r \in durable' : \E i \in 1 .. Len(file') : LineAt(file', r, i) /\ i + 2 <= synced'
      BY <1>1, <1>5, <2>1, <2>2
    <2>4. synced' \in 0 .. Len(file') /\ durable' \subseteq written'
      BY <1>1, <1>4, <2>1 DEF FileInv, Bounds, TypeOK
    <2>5. TypeOK'
      BY <1>8, <2>4 DEF TypeOK, Pieces
    <2> QED BY <1>1, <1>3, <1>5, <2>3, <2>5 DEF FileInv
  <1>7. CASE ~ok
    <2>1. synced' = synced /\ durable' = durable
      BY <1>7 DEF Written, Sync
    <2>3. \A r \in durable' : \E i \in 1 .. Len(file') : LineAt(file', r, i) /\ i + 2 <= synced'
      BY <1>1, <1>3, <2>1
    <2>4. synced' \in 0 .. Len(file') /\ durable' \subseteq written'
      BY <1>1, <1>4, <2>1 DEF FileInv, Bounds, TypeOK
    <2>5. TypeOK'
      BY <1>8, <2>4 DEF TypeOK, Pieces
    <2> QED BY <1>1, <1>3, <1>5, <2>3, <2>5 DEF FileInv
  <1> QED BY <1>6, <1>7

\* A write fails, or the run dies in it, after n pieces.
LEMMA PartKeeps ==
    ASSUME FileInv, NEW n \in 0 .. 4, WriteFails(n) \/ Dies(n)
    PROVE  FileInv'
  <1> DEFINE g == file \o SubSeq(Line(writes + 1), 1, n)
  <1>1. /\ file' = g /\ open /\ writes < MaxWrites /\ writes' = writes + 1
        /\ runs' = runs /\ synced' = synced /\ written' = written /\ durable' = durable
        /\ n <= Len(Line(writes + 1))
        /\ open' = FALSE \/ torn' = TRUE \/ (n = 0 /\ torn' = torn /\ open' = open)
        /\ {open', torn'} \subseteq BOOLEAN
    <2>1. writes + 1 \in 1 .. MaxWrites /\ torn \in BOOLEAN /\ open \in BOOLEAN
      BY DEF FileInv, Bounds, TypeOK, WriteFails, Dies
    <2>2. Len(Line(writes + 1)) \in Nat
      BY <2>1, LineIs
    <2>3. (n > 0) \in BOOLEAN /\ (~(n > 0) => n = 0)
      OBVIOUS
    <2>4. CASE WriteFails(n)
      <3>1. torn' = (n > 0 \/ torn) /\ open' = open
        BY <2>4 DEF WriteFails, TornAfter
      <3>2. {open', torn'} \subseteq BOOLEAN /\ (torn' = TRUE \/ (n = 0 /\ torn' = torn))
        BY <2>1, <2>3, <3>1, Zenon
      <3> QED BY <2>2, <2>4, <3>1, <3>2 DEF WriteFails
    <2>5. CASE Dies(n)
      <3>1. {open', torn'} \subseteq BOOLEAN
        BY <2>1, <2>5, Zenon DEF Dies
      <3> QED BY <2>2, <2>5, <3>1, Zenon DEF Dies
    <2> QED BY <2>4, <2>5, Zenon
  <1>2. n \in 0 .. Len(Line(writes + 1))
    <2>1. writes + 1 \in 1 .. MaxWrites /\ torn \in BOOLEAN
      BY <1>1 DEF FileInv, Bounds, TypeOK
    <2>2. Len(Line(writes + 1)) \in Nat
      BY <2>1, LineIs
    <2> QED BY <1>1, <2>2
  <1>3. /\ g \in Seq(Pieces) /\ Len(g) = Len(file) + n
        /\ \A i \in 1 .. Len(file) : g[i] = file[i]
        /\ \A m \in 1 .. n : g[Len(file) + m] = Line(writes + 1)[m]
    BY <1>1, <1>2, PiecesOfLine, Zenon
  <1>4. /\ NotJoined(g)
        /\ \A r \in written : \E i \in 1 .. Len(g) : LineAt(g, r, i)
        /\ \A r \in durable : \E i \in 1 .. Len(g) : LineAt(g, r, i) /\ i + 2 <= synced
    BY <1>1, <1>2, <1>3, WriteKeeps, Zenon
  <1> HIDE DEF g
  <1>5. Len(g) \in Nat /\ Len(g) >= Len(file) /\ Len(file) \in Nat /\ file \in Seq(Pieces)
    BY <1>3 DEF FileInv, Bounds, TypeOK, Pieces
  <1>6. TypeOK'
    <2>1. synced' \in 0 .. Len(file') /\ writes' \in 0 .. MaxWrites /\ runs' \in 0 .. MaxRuns
      BY <1>1, <1>5 DEF FileInv, Bounds, TypeOK
    <2>2. durable' \subseteq written' /\ written' \subseteq 1 .. writes'
      BY <1>1 DEF FileInv, Bounds, TypeOK
    <2>3. file' \in Seq(Pieces)
      BY <1>1, <1>3
    <2> QED BY <1>1, <2>1, <2>2, <2>3 DEF TypeOK, Pieces
  <1>7. ASSUME open', ~torn', file' # <<>>
        PROVE  file'[Len(file')] = NL
    <2>1. n = 0 /\ ~torn /\ open
      BY <1>1, <1>7
    <2>2. Len(g) = Len(file) /\ Len(file) # 0
      BY <1>1, <1>3, <1>5, <1>7, <2>1
    <2>3. file # <<>> /\ Len(file) \in 1 .. Len(file)
      BY <1>5, <2>2
    <2>4. file[Len(file)] = NL
      BY <2>1, <2>3 DEF FileInv
    <2> QED BY <1>1, <1>3, <2>2, <2>3, <2>4
  <1> QED BY <1>1, <1>4, <1>6, <1>7 DEF FileInv

\* The node goes: what was synced stays, and with it every record that is counted as written.
LEMMA NodeKeeps ==
    ASSUME FileInv, NEW kept \in 0 .. Len(file), NodeGoes(kept)
    PROVE  FileInv'
  <1>1. /\ file \in Seq(Pieces) /\ Len(file) \in Nat /\ synced \in 0 .. Len(file)
        /\ kept \in Nat /\ synced <= kept /\ kept <= Len(file)
    BY DEF FileInv, Bounds, TypeOK, NodeGoes, Pieces
  <1>2. /\ file' = SubSeq(file, 1, kept) /\ open' = FALSE /\ torn' = torn
        /\ synced' = kept /\ written' = durable /\ durable' = durable
        /\ writes' = writes /\ runs' = runs
    BY DEF NodeGoes
  <1>4. /\ file' \in Seq(Pieces) /\ Len(file') = kept /\ \A j \in 1 .. kept : file'[j] = file[j]
    BY <1>1, <1>2, Started, Zenon
  <1>5. TypeOK'
    <2>1. {open', torn'} \subseteq BOOLEAN
      BY <1>2, Zenon DEF FileInv, Bounds, TypeOK
    <2>2. synced' \in 0 .. Len(file')
      BY <1>1, <1>2, <1>4
    <2> QED BY <1>2, <1>4, <2>1, <2>2 DEF FileInv, Bounds, TypeOK, Pieces
  <1>6. NotJoined(file')
    <2> SUFFICES ASSUME NEW i \in DOMAIN file', file'[i] # NL, i > 1,
                        file'[i - 1] # NL
                 PROVE  file'[i][1] = file'[i - 1][1]
      BY DEF NotJoined
    <2>1. i \in 1 .. kept
      BY <1>4
    <2>2. i - 1 \in 1 .. kept /\ i \in DOMAIN file
      BY <1>1, <2>1
    <2> QED BY <1>4, <2>1, <2>2 DEF FileInv, NotJoined
  <1>7. \A r \in durable :
          \E i \in 1 .. Len(file') : LineAt(file', r, i) /\ i + 2 <= synced'
    <2> SUFFICES ASSUME NEW r \in durable
                 PROVE  \E i \in 1 .. Len(file') : LineAt(file', r, i) /\ i + 2 <= synced'
      OBVIOUS
    <2>1. PICK i \in 1 .. Len(file) : LineAt(file, r, i) /\ i + 2 <= synced
      BY DEF FileInv
    <2>2. i + 2 <= kept /\ i + 2 <= synced'
      BY <1>1, <1>2, <2>1
    <2>3. LineAt(file', r, i) /\ i \in 1 .. Len(file')
      <3>1. Len(file') \in Nat /\ kept <= Len(file')
        BY <1>1, <1>4
      <3> QED BY ONLY LineMoves, <1>1, <1>4, <2>1, <2>2, <3>1, Zenon
    <2> QED BY <2>2, <2>3
  <1> QED BY <1>2, <1>5, <1>6, <1>7 DEF FileInv

\* Every step of the file keeps the invariant.
LEMMA FileNext == FileInv /\ [Next]_vars => FileInv'
  <1> SUFFICES ASSUME FileInv, [Next]_vars PROVE FileInv'
    OBVIOUS
  <1>1. CASE Close \/ UNCHANGED vars
    <2>1. /\ file' = file /\ synced' = synced /\ torn' = torn /\ writes' = writes /\ runs' = runs
          /\ written' = written /\ durable' = durable /\ (open' = open \/ open' = FALSE)
      BY <1>1 DEF Close, vars
    <2>2. {open', torn'} \subseteq BOOLEAN
      BY <2>1, Zenon DEF FileInv, Bounds, TypeOK
    <2>3. TypeOK'
      BY <2>1, <2>2 DEF FileInv, Bounds, TypeOK
    <2> QED BY <2>1, <2>3 DEF FileInv
  <1>2. \/ Close \/ UNCHANGED vars \/ OpenStream
        \/ \E ok \in BOOLEAN : Written(ok)
        \/ \E n \in 0 .. 4 : WriteFails(n) \/ Dies(n)
        \/ \E kept \in 0 .. Len(file) : NodeGoes(kept)
    BY DEF Next
  <1> QED BY <1>1, <1>2, OpenKeeps, WrittenKeeps, PartKeeps, NodeKeeps

\* A record at its place is one of the file's lines.
LEMMA LinesAre == FileInv => NoLineJoined /\ WrittenIsLine
  <1> SUFFICES ASSUME FileInv PROVE NoLineJoined /\ WrittenIsLine
    OBVIOUS
  <1>1. NoLineJoined
    BY DEF FileInv, NotJoined, NoLineJoined
  <1>2. ASSUME NEW r \in written
        PROVE  \E i \in 1 .. Len(file) - 2 :
                 /\ IsLine(i, i + 1) /\ SubSeq(file, i, i + 1) = Record(r)
                 /\ file[i + 2] = NL
    <2>1. PICK i \in 1 .. Len(file) : LineAt(file, r, i)
      BY DEF FileInv
    <2>2. file \in Seq(Pieces) /\ r \in Nat \ {0}
      BY DEF FileInv, Bounds, TypeOK, Pieces
    <2>3. /\ i \in 1 .. Len(file) - 2 /\ (i = 1 \/ file[i - 1] = NL)
          /\ file[i] = <<r, 1>> /\ file[i + 1] = <<r, 2>> /\ file[i + 2] = NL
      BY <2>1 DEF LineAt
    <2>4. IsLine(i, i + 1)
      <3>1. file[i] # NL /\ file[i + 1] # NL
        BY <2>2, <2>3, NotNewline
      <3>2. \A k \in i .. i + 1 : k = i \/ k = i + 1
        OBVIOUS
      <3>3. (i + 1) + 1 = i + 2
        OBVIOUS
      <3> QED BY <2>3, <3>1, <3>2, <3>3, Zenon DEF IsLine
    <2>5. SubSeq(file, i, i + 1) = <<file[i], file[i + 1]>>
      <3>1. ASSUME NEW q \in Seq(Pieces), NEW j \in 1 .. Len(q) - 2
            PROVE  SubSeq(q, j, j + 1) = <<q[j], q[j + 1]>>
        <4>1. /\ SubSeq(q, j, j + 1) \in Seq(Pieces) /\ Len(SubSeq(q, j, j + 1)) = 2
              /\ SubSeq(q, j, j + 1)[1] = q[j] /\ SubSeq(q, j, j + 1)[2] = q[j + 1]
          OBVIOUS
        <4>2. ASSUME NEW t \in Seq(Pieces), Len(t) = 2
              PROVE  t = <<t[1], t[2]>>
          BY ONLY <4>2
        <4> QED BY ONLY <4>1, <4>2, Zenon
      <3> QED BY ONLY <2>2, <2>3, <3>1, Zenon
    <2> QED BY <2>3, <2>4, <2>5 DEF Record
  <1> QED BY <1>1, <1>2 DEF WrittenIsLine

\* However many runs append to the file, whichever writes fail or are cut off by a death after any
\* of their pieces, and whatever unsynced end a node takes with it: no line is made of two records
\* and a record that was written is a line of its own.
THEOREM Invariance == Bounds /\ Spec => [](TypeOK /\ NoLineJoined /\ WrittenIsLine)
  <1>1. FileInv => TypeOK /\ NoLineJoined /\ WrittenIsLine
    BY LinesAre DEF FileInv
  <1> QED BY <1>1, FileInit, FileNext, PTL DEF Spec
=============================================================================
